---- MODULE Spec2Model ----
(***************************************************************************)
(* Checkpointed harvesting scripts of the repository.                      *)
(*                                                                         *)
(*   enrich_investors.js          enrich(), enrichLinkedInProfile(),       *)
(*                                loadProgress(), saveProgress()           *)
(*   visible_investor_scraper.js  (full scraper) scrape(), makeRequest()   *)
(*   investor-enrichment.js       main(), analyzeWithGPT()                 *)
(*   unnamed/part_001             (founder enrichment) main(),             *)
(*                                enrichCompany()                          *)
(*   visible_investor_scraper.js  (basic scraper) scrapeInvestors(),       *)
(*                                makeRequest(), fetchInvestorDetails()    *)
(*   investor-finder/server.js    checkRateLimit(), the cleanup timer,     *)
(*                                handleRequest()                          *)
(*                                                                         *)
(* One process runs one script (the server: one event loop).  Which script, and how large the work set  *)
(* and the fault budgets of a behaviour are, is drawn in Init (cfg).       *)
(***************************************************************************)
EXTENDS Integers, Sequences, FiniteSets, TLC

(***************************************************************************)
(* Bounds of the exploration.                                              *)
(***************************************************************************)
MaxItems == 3
MaxRetry == 2
MaxThrows == 1
MaxRuns == 2
MaxForks == 1
DeepRetry == 8
SlowDelay == 10000
BasicTotal == 250
ShortPage == 60
MaxTicks == 3
MaxSkew == 1

(***************************************************************************)
(* CONFIG of enrich_investors.js.                                          *)
(***************************************************************************)
DEFAULT_DELAY == 1000
PAUSE_EVERY == 50
INITIAL_RETRY_DELAY == 5000
MAX_RETRY_DELAY == 300000
CREDITS_MIN_WAIT == 60000
ENRICH_SAVE_EVERY == 10

(***************************************************************************)
(* CONFIG of the full scraper (visible_investor_scraper.js).               *)
(***************************************************************************)
SCRAPER_INITIAL_RETRY_DELAY == 30000
SCRAPER_MAX_RETRY_DELAY == 300000
SCRAPER_PAUSE_EVERY == 50
SCRAPER_PAUSE_DURATION == 10000
SCRAPER_DEFAULT_DELAY == 2000
MIN_DELAY_BETWEEN_CALLS == 1500
OUTER_RETRY_WAIT == 300000
SAVE_EVERY == 10

(***************************************************************************)
(* CONFIG of the basic scraper (visible_investor_scraper.js, first part).  *)
(***************************************************************************)
PAGE_SIZE == 100
BASIC_MAX_RETRIES == 3
BASIC_RETRY_DELAY == 5000
BASIC_SAVE_EVERY == 500

(***************************************************************************)
(* RATE_LIMIT of investor-finder/server.js, and the period of its cleanup  *)
(* timer.                                                                  *)
(***************************************************************************)
windowMs == 60000
maxRequests == 100
maxSearchRequests == 10
maxAuthRequests == 5
blockDurationMs == 300000
CLEANUP_INTERVAL == 300000
DETAIL_SAVE_EVERY == 100

(***************************************************************************)
(* Constants of the founder enrichment (unnamed/part_001).                 *)
(***************************************************************************)
BATCH_SIZE == 20
FOUNDERS_SAVE_EVERY == 5

(***************************************************************************)
(* Constants of investor-finder/investor-enrichment.js.                    *)
(***************************************************************************)
RESEARCH_DEFAULT_LIMIT == 50
GPT_MAX_RETRIES == 5
GPT_BASE_DELAY == 2000

Min(a, b) == IF a < b THEN a ELSE b
Max(a, b) == IF a > b THEN a ELSE b

RECURSIVE Pow2(_)
Pow2(n) == IF n = 0 THEN 1 ELSE 2 * Pow2(n - 1)

Range(s) == {s[k] : k \in 1..Len(s)}

Occurrences(s, x) == Cardinality({k \in 1..Len(s) : s[k] = x})

(***************************************************************************)
(* getRetryDelay: exponential backoff capped at MAX_RETRY_DELAY.           *)
(***************************************************************************)
getRetryDelay(count) ==
    Min(INITIAL_RETRY_DELAY * Pow2(Min(count, 6)), MAX_RETRY_DELAY)

(***************************************************************************)
(* Outcomes of one HTTP attempt of enrichLinkedInProfile: the status with  *)
(* the shape of a 200 body, a network error, or the 30 s timeout.          *)
(***************************************************************************)
Outcomes ==
    {"200profile", "200nodata", "200malformed", "429", "403", "5xx",
     "404", "400", "other", "neterr", "timeout"}

\* Classify with 404 and 400 left to the final "other error - retry" branch.
ClassifyRetry404(o) ==
    CASE o = "200profile" -> "profile"
      [] o = "200nodata" -> "null"
      [] OTHER -> "retry"

\* Classify with 429 treated like a client error that is skipped.
ClassifySkip429(o) ==
    CASE o = "200profile" -> "profile"
      [] o \in {"200nodata", "404", "400", "429"} -> "null"
      [] OTHER -> "retry"

\* What one handler of enrichLinkedInProfile does with an outcome:
\* resolve with the profile, resolve with null, or schedule a retry.
Classify(o) ==
    CASE o = "200profile" -> "profile"
      [] o = "200nodata" -> "null"
      [] o = "200malformed" -> "retry"
      [] o = "429" -> "retry"
      [] o = "403" -> "retry"
      [] o = "5xx" -> "retry"
      [] o \in {"404", "400"} -> "null"
      [] OTHER -> "retry"

\* RetryDelay with Math.min in place of Math.max for the 403 wait.
RetryDelayMin(o, rc) ==
    IF o = "403" THEN Min(getRetryDelay(rc), CREDITS_MIN_WAIT)
    ELSE getRetryDelay(rc)

\* The delay slept before the retry that follows outcome o at retryCount rc.
RetryDelay(o, rc) ==
    IF o = "403" THEN Max(getRetryDelay(rc), CREDITS_MIN_WAIT)
    ELSE getRetryDelay(rc)

\* The handlers an outcome fires.  A response fires res.on('end'); a network
\* error fires req.on('error'); the timeout callback calls req.destroy(),
\* which may in turn emit 'error' on the request (destroyEmitsError).
Handlers(o, destroyEmitsError) ==
    IF o = "timeout" THEN (IF destroyEmitsError THEN 2 ELSE 1) ELSE 1

(***************************************************************************)
(* Progress record (checkpoint).                                           *)
(***************************************************************************)
EmptyStats == [total |-> 0, enriched |-> 0, notFound |-> 0, noLinkedIn |-> 0]

EmptyProgress ==
    [processedIds |-> <<>>, enrichedMembers |-> <<>>, stats |-> EmptyStats]

\* The progress file: whether it exists, whether its content is complete
\* JSON (ok), and the record that was written to it.
NoFile == [exists |-> FALSE, ok |-> TRUE, data |-> EmptyProgress]

\* loadProgress that returns whatever record the content holds, also when
\* JSON.parse would throw on it.
loadProgressLenient(file) == IF file.exists THEN file.data ELSE EmptyProgress

\* loadProgress: the parsed file if it exists and parses, else (file
\* missing, or JSON.parse throws into the empty catch) the empty record.
loadProgress(file) ==
    IF file.exists /\ file.ok THEN file.data ELSE EmptyProgress

\* saveProgress: the file holds a copy of the in-memory record.
saveProgress(p) == [exists |-> TRUE, ok |-> TRUE, data |-> p]

\* A write that the death of the process cut short: the content is a
\* prefix of the JSON text and does not parse.
Torn(file) == [file EXCEPT !.ok = FALSE]

\* extractEnrichedData, reduced to the fields the checkpoint logic reads.
extractEnrichedData(member, profile) ==
    [id |-> member, enriched |-> (profile = "profile")]

\* Members not yet in the loaded checkpoint, in input order.
RECURSIVE FilterOut(_, _)
FilterOut(s, done) ==
    IF s = <<>> THEN <<>>
    ELSE IF Head(s) \in done THEN FilterOut(Tail(s), done)
         ELSE <<Head(s)>> \o FilterOut(Tail(s), done)

\* options.limit: <<>> stands for Infinity (no --limit), <<n>> for
\* parseInt of the argument.
NoLimit == <<>>

\* parseArgs without arguments.
DefaultOptions ==
    [limit |-> NoLimit, delay |-> DEFAULT_DELAY, dryRun |-> FALSE]

\* Array.prototype.slice(0, end): a negative end counts from the end of the
\* array, an end beyond the length stops at the length.
Slice0(s, end) ==
    LET e == IF end < 0 THEN Max(Len(s) + end, 0) ELSE Min(end, Len(s))
    IN SubSeq(s, 1, e)

\* .slice(0, options.limit) (line 564).
SliceLimit(s, limit) == IF limit = NoLimit THEN s ELSE Slice0(s, limit[1])

\* The early returns of enrich() without the dry-run test.
ReturnsEarlyNoDryRun(opts, todo) == todo = <<>>

\* The early returns of enrich() before the loop (lines 569-584): the dry
\* run, or nothing to do.
ReturnsEarly(opts, todo) == opts.dryRun \/ todo = <<>>

NewCall == [requests |-> 0, retries |-> 0, prevDelay |-> 0, lastDelay |-> 0]

NoAttempt == [outcome |-> "none", rc |-> 0, profile |-> 0, null |-> 0, retry |-> 0]

NoChain == [phase |-> "none", rc |-> 0]

(***************************************************************************)
(* Scenarios: the work set and the fault budgets of one behaviour.         *)
(***************************************************************************)
(***************************************************************************)
(* Full scraper: makeRequest and its backoff.                              *)
(***************************************************************************)
ScraperOutcomes ==
    {"200", "200empty", "200malformed", "429", "5xx", "404", "403", "408",
     "other", "neterr", "timeout"}

\* Math.random() - 0.5, in thousandths of the delay after the factor 0.2.
Jitters == {-100, 0, 99}

\* getRetryDelay of the full scraper: capped exponential backoff plus jitter.
ScraperGetRetryDelay(retryCount, jitter) ==
    LET delay == Min(SCRAPER_INITIAL_RETRY_DELAY * Pow2(retryCount),
                     SCRAPER_MAX_RETRY_DELAY)
    IN delay + (delay * jitter) \div 1000

\* What one handler of makeRequest does with an outcome.
ScraperClassify(o) ==
    CASE o = "200" -> "data"
      [] o = "200empty" -> "empty"
      [] o = "200malformed" -> "retry"
      [] o = "429" -> "retry"
      [] o = "5xx" -> "retry"
      [] o \in {"400", "401", "403", "404", "408"} -> "null"
      [] OTHER -> "retry"

ScraperRetryDelay(o, rc, jitter) ==
    IF o = "429" THEN ScraperGetRetryDelay(rc, jitter) * 2
    ELSE ScraperGetRetryDelay(rc, jitter)

ScraperFresh ==
    [processedSlugs |-> <<>>, allSlugs |-> <<>>, investors |-> <<>>,
     teamMembers |-> <<>>, investments |-> <<>>, total |-> 0]

ScraperNoFile == [exists |-> FALSE, ok |-> TRUE, data |-> ScraperFresh]

\* loadProgress of the full scraper: the parsed file, or a fresh record when
\* the file is missing or JSON.parse throws.
ScraperLoadProgress(file) ==
    IF file.exists /\ file.ok THEN file.data ELSE ScraperFresh

(***************************************************************************)
(* investor-enrichment.js: the in-memory state of main() and its files.    *)
(***************************************************************************)
\* progress.enriched_ids, the keys of enrichedData, the keys of
\* researchCache.
ResearchFresh ==
    [enriched_ids |-> <<>>, enrichedData |-> {}, researchCache |-> {}]

\* .enrichment_progress.json, enriched_investors.json, .research_cache.json
ResearchNoFiles ==
    [progress |-> [exists |-> FALSE, ok |-> TRUE, data |-> <<>>],
     enriched |-> [exists |-> FALSE, ok |-> TRUE, data |-> {}],
     cache |-> [exists |-> FALSE, ok |-> TRUE, data |-> {}]]

\* loadProgress, loadEnrichedData, loadResearchCache: the parsed file, or
\* the default when the file is missing or does not parse.
LoadFile(file, default) ==
    IF file.exists /\ file.ok THEN file.data ELSE default

\* fs.writeFileSync(path, JSON.stringify(data)).
WriteFile(data) == [exists |-> TRUE, ok |-> TRUE, data |-> data]

\* Outcomes of the chat-completions request of analyzeWithGPT.
GptOutcomes == {"200json", "200badjson", "200nojson", "429", "other", "neterr"}

\* analyzeWithGPT on one response at retryCount rc: the parsed analysis, a
\* retry after a backoff, or null.
GptClassify(o, rc) ==
    CASE o = "200json" -> "analysis"
      [] o = "429" /\ rc < GPT_MAX_RETRIES -> "retry"
      [] OTHER -> "null"

\* BASE_DELAY * Math.pow(2, retryCount)
GptDelay(rc) == GPT_BASE_DELAY * Pow2(rc)

(***************************************************************************)
(* Basic scraper: makeRequest, progress file, pages of the upstream list.  *)
(***************************************************************************)
BasicOutcomes ==
    {"200", "200empty", "200malformed", "429", "5xx", "4xx", "neterr",
     "timeout"}

\* What makeRequest of the basic scraper does with an outcome at retryCount
\* rc (lines 153-190): resolve with the body, retry after RETRY_DELAY, or
\* reject.
BasicClassify(o, rc) ==
    CASE o = "200" -> "data"
      [] o = "200empty" -> "empty"
      [] o = "200malformed" -> "reject"
      [] o = "429" -> IF rc < BASIC_MAX_RETRIES THEN "retry" ELSE "reject"
      [] o = "neterr" -> IF rc < BASIC_MAX_RETRIES THEN "retry" ELSE "reject"
      [] o = "timeout" -> "reject"
      [] OTHER -> "reject"

BasicFresh ==
    [offset |-> 0, investors |-> <<>>, total |-> 0, detailsProcessed |-> 0]

BasicNoFile == [exists |-> FALSE, ok |-> TRUE, data |-> BasicFresh]

\* loadProgress of the basic scraper (lines 281-291).
BasicLoadProgress(file) ==
    IF file.exists /\ file.ok THEN file.data ELSE BasicFresh

\* saveProgress of the basic scraper (lines 293-295).
BasicSaveProgress(p) == [exists |-> TRUE, ok |-> TRUE, data |-> p]

\* extractInvestorData of the k-th investor of the upstream list.
BasicInvestor(k) == [id |-> k, detailed |-> FALSE]

\* The page the upstream returns for page[offset] = offset and
\* page[limit] = PAGE_SIZE when it lists `total` investors and serves at
\* most `size` of them per page.
PageAt(offset, total, size) ==
    [k \in 1..Max(0, Min(Min(PAGE_SIZE, size), total - offset)) |->
       BasicInvestor(offset + k)]

\* The loops of lines 470-473 and 493-496: push the page, stopping as soon
\* as the list holds `limit` investors (tested after each push).
PushPage(list, page, limit) ==
    LET n == IF limit = NoLimit \/ page = <<>> THEN Len(page)
             ELSE Min(Len(page), Max(1, limit[1] - Len(list)))
    IN list \o [k \in 1..n |-> page[k]]

\* Math.min(totalAvailable, options.limit)
MinLimit(n, limit) == IF limit = NoLimit THEN n ELSE Min(n, limit[1])

(***************************************************************************)
(* Founder enrichment: the in-memory state of main() and its files.        *)
(***************************************************************************)
\* progress.processed (company keys) and the founders array (one record per
\* lookup result).
FoundersFresh == [processed |-> <<>>, founders |-> <<>>]

\* founder_enrichment_progress.json and founders.json
FoundersNoFiles ==
    [progress |-> [exists |-> FALSE, ok |-> TRUE, data |-> <<>>],
     founders |-> [exists |-> FALSE, ok |-> TRUE, data |-> <<>>]]

\* The confidence of the result of enrichCompany: founders found, none
\* found, or the lookup failed (API or transport error caught inside
\* findFoundersWithOpenAI / extractFoundersWithAI); "throw": enrichCompany
\* rejects.
LookupOutcomes == {"found", "none", "failed", "throw"}

\* if (limit) uniqueCompanies = uniqueCompanies.slice(0, limit)
\* (lines 579-582).
FoundersLimit(s, limit) ==
    IF limit = NoLimit \/ limit[1] = 0 THEN s ELSE Slice0(s, limit[1])

\* The company keys of a founders array.
RECURSIVE KeysOf(_)
KeysOf(f) == IF f = <<>> THEN <<>> ELSE <<Head(f).key>> \o KeysOf(Tail(f))

\* The in-memory state a script starts from, and its files before any run.
FreshMemory(script) ==
    CASE script = "scrape" -> ScraperFresh
      [] script = "research" -> ResearchFresh
      [] script = "basic" -> BasicFresh
      [] script = "founders" -> FoundersFresh
      [] OTHER -> EmptyProgress

NoFiles(script) ==
    CASE script = "scrape" -> ScraperNoFile
      [] script = "research" -> ResearchNoFiles
      [] script = "basic" -> BasicNoFile
      [] script = "founders" -> FoundersNoFiles
      [] OTHER -> NoFile

ShortRun ==
    [limits |-> {NoLimit}, delays |-> {DEFAULT_DELAY}, dryRuns |-> {FALSE},
     diskFaults |-> FALSE, tears |-> TRUE, poison |-> {}, script |-> "enrich", items |-> MaxItems, retryCap |-> MaxRetry,
     throws |-> MaxThrows, runs |-> MaxRuns, forks |-> 0,
     pauseEvery |-> MaxItems - 1, outcomes |-> Outcomes]

ForkRun ==
    [limits |-> {NoLimit}, delays |-> {DEFAULT_DELAY}, dryRuns |-> {FALSE},
     diskFaults |-> FALSE, tears |-> FALSE, poison |-> {}, script |-> "enrich", items |-> 2, retryCap |-> MaxRetry,
     throws |-> 0, runs |-> 1, forks |-> MaxForks,
     pauseEvery |-> PAUSE_EVERY,
     outcomes |-> {"200profile", "404", "429", "timeout"}]

DeepBackoff ==
    [limits |-> {NoLimit}, delays |-> {DEFAULT_DELAY}, dryRuns |-> {FALSE},
     diskFaults |-> FALSE, tears |-> FALSE, poison |-> {}, script |-> "enrich", items |-> 1, retryCap |-> DeepRetry,
     throws |-> 0, runs |-> 1, forks |-> 0,
     pauseEvery |-> PAUSE_EVERY,
     outcomes |-> {"200profile", "429", "403", "timeout"}]

LongRun ==
    [limits |-> {NoLimit}, delays |-> {DEFAULT_DELAY}, dryRuns |-> {FALSE},
     diskFaults |-> TRUE, tears |-> FALSE, poison |-> {}, script |-> "enrich", items |-> ENRICH_SAVE_EVERY + 1, retryCap |-> 1,
     throws |-> MaxThrows, runs |-> MaxRuns, forks |-> 0,
     pauseEvery |-> PAUSE_EVERY, outcomes |-> {"200profile"}]

\* A run in which the profile the API returns for one member carries an
\* `experience` that is not an array.
PoisonRun ==
    [limits |-> {NoLimit}, delays |-> {DEFAULT_DELAY}, dryRuns |-> {FALSE},
     diskFaults |-> FALSE, tears |-> FALSE, poison |-> {MaxItems - 1},
     script |-> "enrich", items |-> MaxItems, retryCap |-> 1,
     throws |-> 0, runs |-> MaxRuns, forks |-> 0,
     pauseEvery |-> PAUSE_EVERY, outcomes |-> {"200profile", "404", "429"}]

DiskRun ==
    [limits |-> {NoLimit}, delays |-> {DEFAULT_DELAY}, dryRuns |-> {FALSE},
     diskFaults |-> TRUE, tears |-> FALSE, poison |-> {}, script |-> "enrich",
     items |-> MaxItems, retryCap |-> 1,
     throws |-> MaxThrows, runs |-> MaxRuns, forks |-> 0,
     pauseEvery |-> MaxItems - 1, outcomes |-> {"200profile", "404", "5xx"}]

\* Runs of enrich() under different command lines.
OptionsRun ==
    [limits |-> {NoLimit, <<0>>, <<MaxItems - 1>>, <<MaxItems + 1>>, <<-1>>},
     delays |-> {DEFAULT_DELAY, SlowDelay}, dryRuns |-> BOOLEAN,
     diskFaults |-> FALSE, tears |-> FALSE, poison |-> {}, script |-> "enrich",
     items |-> MaxItems, retryCap |-> 1,
     throws |-> 0, runs |-> MaxRuns, forks |-> 0,
     pauseEvery |-> PAUSE_EVERY, outcomes |-> {"200profile", "429"}]

\* Runs of investor-enrichment.js.
ResearchRun ==
    [limits |-> {<<RESEARCH_DEFAULT_LIMIT>>, <<MaxItems - 2>>},
     delays |-> {DEFAULT_DELAY}, dryRuns |-> BOOLEAN,
     diskFaults |-> FALSE, tears |-> TRUE, poison |-> {}, script |-> "research",
     items |-> MaxItems - 1, retryCap |-> GPT_MAX_RETRIES,
     throws |-> 0, runs |-> MaxRuns, forks |-> 0,
     pauseEvery |-> PAUSE_EVERY,
     outcomes |-> {"200json", "200nojson", "429", "other"}]

\* Runs of the basic scraper: a list of several pages, and a short list
\* with --detailed.
BasicListRun ==
    [limits |-> {NoLimit, <<PAGE_SIZE + 1>>}, delays |-> {DEFAULT_DELAY},
     dryRuns |-> {FALSE}, detailed |-> {FALSE}, served |-> PAGE_SIZE,
     diskFaults |-> FALSE, tears |-> TRUE, poison |-> {}, script |-> "basic",
     items |-> BasicTotal, retryCap |-> BASIC_MAX_RETRIES,
     throws |-> 0, runs |-> MaxRuns, forks |-> 0,
     pauseEvery |-> PAUSE_EVERY, outcomes |-> BasicOutcomes]

\* A list of more than BASIC_SAVE_EVERY investors that the upstream serves
\* in pages shorter than the page[limit] asked for.
BasicShortPages ==
    [limits |-> {NoLimit}, delays |-> {DEFAULT_DELAY},
     dryRuns |-> {FALSE}, detailed |-> {FALSE}, served |-> ShortPage,
     diskFaults |-> FALSE, tears |-> FALSE, poison |-> {}, script |-> "basic",
     items |-> BASIC_SAVE_EVERY + 4 * PAGE_SIZE, retryCap |-> BASIC_MAX_RETRIES,
     throws |-> 0, runs |-> 1, forks |-> 0,
     pauseEvery |-> PAUSE_EVERY, outcomes |-> {"200"}]

BasicDetailRun ==
    [limits |-> {NoLimit}, delays |-> {DEFAULT_DELAY},
     dryRuns |-> {FALSE}, detailed |-> {TRUE}, served |-> PAGE_SIZE,
     diskFaults |-> FALSE, tears |-> FALSE, poison |-> {}, script |-> "basic",
     items |-> MaxItems - 1, retryCap |-> BASIC_MAX_RETRIES,
     throws |-> 0, runs |-> MaxRuns, forks |-> MaxForks,
     pauseEvery |-> PAUSE_EVERY,
     outcomes |-> {"200", "200empty", "5xx", "timeout", "429"}]

\* Runs of the founder enrichment: short lists with small --batch values
\* and kills, and a list longer than the default batch.
FoundersRun ==
    [limits |-> {NoLimit}, delays |-> {DEFAULT_DELAY}, dryRuns |-> {FALSE},
     batches |-> {MaxItems - 1, MaxItems},
     diskFaults |-> FALSE, tears |-> FALSE, poison |-> {},
     script |-> "founders", items |-> FOUNDERS_SAVE_EVERY + 1, retryCap |-> 1,
     throws |-> 0, runs |-> 1, forks |-> 0,
     pauseEvery |-> PAUSE_EVERY, outcomes |-> LookupOutcomes]

FoundersShort ==
    [limits |-> {NoLimit, <<MaxItems - 1>>}, delays |-> {DEFAULT_DELAY},
     dryRuns |-> {FALSE}, batches |-> {MaxItems - 1},
     diskFaults |-> FALSE, tears |-> FALSE, poison |-> {},
     script |-> "founders", items |-> MaxItems, retryCap |-> 1,
     throws |-> MaxThrows, runs |-> MaxRuns, forks |-> 0,
     pauseEvery |-> PAUSE_EVERY, outcomes |-> {"found", "failed", "throw"}]

FoundersLong ==
    [limits |-> {NoLimit}, delays |-> {DEFAULT_DELAY}, dryRuns |-> {FALSE},
     batches |-> {BATCH_SIZE},
     diskFaults |-> FALSE, tears |-> FALSE, poison |-> {},
     script |-> "founders", items |-> BATCH_SIZE + 1, retryCap |-> 1,
     throws |-> 0, runs |-> 1, forks |-> 0,
     pauseEvery |-> PAUSE_EVERY, outcomes |-> {"found"}]

ScrapeShort ==
    [limits |-> {NoLimit}, delays |-> {SCRAPER_DEFAULT_DELAY}, dryRuns |-> {FALSE},
     diskFaults |-> FALSE, tears |-> TRUE, poison |-> {}, script |-> "scrape", items |-> MaxItems - 1, retryCap |-> 1,
     throws |-> MaxThrows, runs |-> MaxRuns, forks |-> 0,
     pauseEvery |-> MaxItems - 2, outcomes |-> ScraperOutcomes]

ScrapeDeep ==
    [limits |-> {NoLimit}, delays |-> {SCRAPER_DEFAULT_DELAY}, dryRuns |-> {FALSE},
     diskFaults |-> FALSE, tears |-> FALSE, poison |-> {}, script |-> "scrape", items |-> 1, retryCap |-> DeepRetry,
     throws |-> 0, runs |-> 1, forks |-> 0,
     pauseEvery |-> SCRAPER_PAUSE_EVERY,
     outcomes |-> {"200", "429", "5xx"}]

ScrapeFork ==
    [limits |-> {NoLimit}, delays |-> {SCRAPER_DEFAULT_DELAY}, dryRuns |-> {FALSE},
     diskFaults |-> FALSE, tears |-> FALSE, poison |-> {}, script |-> "scrape", items |-> 1, retryCap |-> 1,
     throws |-> 0, runs |-> 1, forks |-> MaxForks,
     pauseEvery |-> SCRAPER_PAUSE_EVERY,
     outcomes |-> {"200", "timeout"}]

ScrapeLong ==
    [limits |-> {NoLimit}, delays |-> {SCRAPER_DEFAULT_DELAY}, dryRuns |-> {FALSE},
     diskFaults |-> FALSE, tears |-> FALSE, poison |-> {}, script |-> "scrape", items |-> SAVE_EVERY + 1, retryCap |-> 1,
     throws |-> MaxThrows, runs |-> MaxRuns, forks |-> 0,
     pauseEvery |-> SCRAPER_PAUSE_EVERY, outcomes |-> {"200"}]

\* A list of more than one page, scraped without faults.
ScrapeList ==
    [limits |-> {NoLimit, <<PAGE_SIZE + 1>>}, delays |-> {SCRAPER_DEFAULT_DELAY}, dryRuns |-> {FALSE},
     diskFaults |-> FALSE, tears |-> FALSE, poison |-> {}, script |-> "scrape", items |-> PAGE_SIZE + 2, retryCap |-> 0,
     throws |-> 0, runs |-> 1, forks |-> 0,
     pauseEvery |-> SCRAPER_PAUSE_EVERY, outcomes |-> {"200"}]

\* Clients of the server.  `items` requests reach handleRequest; the clock
\* advances `ticks` times, by one of `steps`, after every `batch` requests.
ServerAuth ==
    [script |-> "server", ips |-> {"a"}, kinds |-> {"auth"},
     items |-> 2 * maxAuthRequests, ticks |-> MaxTicks - 1, batch |-> 1,
     steps |-> {windowMs - 1}, skews |-> 0..MaxSkew,
     throws |-> 0, runs |-> 0, forks |-> 0,
     limits |-> {NoLimit}, delays |-> {DEFAULT_DELAY}, dryRuns |-> {FALSE},
     diskFaults |-> FALSE, tears |-> FALSE, poison |-> {}, retryCap |-> 0,
     pauseEvery |-> PAUSE_EVERY, outcomes |-> {}]

ServerSearch ==
    [script |-> "server", ips |-> {"a"}, kinds |-> {"search"},
     items |-> maxSearchRequests + 3, ticks |-> MaxTicks - 1, batch |-> 1,
     steps |-> {1, blockDurationMs - 1}, skews |-> {0},
     throws |-> 0, runs |-> 0, forks |-> 0,
     limits |-> {NoLimit}, delays |-> {DEFAULT_DELAY}, dryRuns |-> {FALSE},
     diskFaults |-> FALSE, tears |-> FALSE, poison |-> {}, retryCap |-> 0,
     pauseEvery |-> PAUSE_EVERY, outcomes |-> {}]

ServerGeneral ==
    [script |-> "server", ips |-> {"a"}, kinds |-> {"api"},
     items |-> maxRequests + 2, ticks |-> MaxTicks - 1,
     batch |-> maxRequests \div 2,
     steps |-> {1, windowMs - 1}, skews |-> {0},
     throws |-> 0, runs |-> 0, forks |-> 0,
     limits |-> {NoLimit}, delays |-> {DEFAULT_DELAY}, dryRuns |-> {FALSE},
     diskFaults |-> FALSE, tears |-> FALSE, poison |-> {}, retryCap |-> 0,
     pauseEvery |-> PAUSE_EVERY, outcomes |-> {}]

ServerPair ==
    [script |-> "server", ips |-> {"a", "b"}, kinds |-> {"auth", "static"},
     items |-> maxAuthRequests + 2, ticks |-> MaxTicks - 2, batch |-> 1,
     steps |-> {blockDurationMs}, skews |-> {0},
     throws |-> 0, runs |-> 0, forks |-> 0,
     limits |-> {NoLimit}, delays |-> {DEFAULT_DELAY}, dryRuns |-> {FALSE},
     diskFaults |-> FALSE, tears |-> FALSE, poison |-> {}, retryCap |-> 0,
     pauseEvery |-> PAUSE_EVERY, outcomes |-> {}]

\* The scenarios of enrich() checked for termination.
LiveScenarios == {ShortRun, ForkRun, PoisonRun}

Scenarios ==
    {ShortRun, ForkRun, DeepBackoff, LongRun, PoisonRun, DiskRun, OptionsRun,
     ResearchRun, BasicListRun, BasicDetailRun, BasicShortPages,
     FoundersRun, FoundersShort, FoundersLong,
     ScrapeShort, ScrapeDeep, ScrapeFork, ScrapeLong, ScrapeList,
     ServerAuth, ServerSearch, ServerGeneral, ServerPair}

VARIABLES
    cfg,            \* the scenario of this behaviour
    members,        \* membersWithLinkedIn: ids, in input order
    disk,           \* the progress file
    pc,             \* position of the process in enrich()
    resume,         \* options.resume of the running process
    progress,       \* the in-memory progress record
    toProcess,      \* members to process in this run
    i,              \* loop index (0-based, as in the source)
    consecutiveInBatch,
    chain,          \* the request or pending retry the awaited promise follows
    orphans,        \* requests and pending retries no promise follows
    resolved,       \* value the awaited promise resolved with
    call,           \* counters of the current enrichLinkedInProfile call
    attempt,        \* what the handlers did with the last attempt
    savedLen,       \* processed entries that are on durable storage
    processed,      \* scrape(): the local counter of processed investors
    stage,          \* scrape(): which fetch of the investor is under way
    outputs,        \* scrape(): investors written by saveOutputs
    pauses,         \* enrich(): batch pauses taken in this run
    diskFull,       \* writes to the progress file fail (ENOSPC)
    options,        \* enrich(): --limit, --delay, --dry-run of the process
    gap,            \* least time between the last two request starts
    called,         \* scrape(): this process has started an API request
    now,            \* server: Date.now()
    rateLimitStore, \* server: IP -> requests, searchRequests, authRequests,
                    \* blocked_until
    cleanupDue,     \* server: when the cleanup timer is due
    admitted,       \* server: per IP and type, when checkRateLimit allowed
    blockedAt,      \* server: per IP, when a limit last blocked it
    verdict,        \* server: what handleRequest did with the last request
    sent,           \* server: requests handled
    ticksLeft,      \* server: advances of the clock left
    throwsLeft, runsLeft, forksLeft

vars == <<cfg, members, disk, pc, resume, progress, toProcess, i,
          consecutiveInBatch, chain, orphans, resolved, call, attempt,
          savedLen, processed, stage, outputs, pauses, diskFull, options,
          gap, called, now, rateLimitStore, cleanupDue, admitted, blockedAt,
          verdict, sent, ticksLeft, throwsLeft, runsLeft, forksLeft>>

\* The variables only the server uses.
serverVars == <<now, rateLimitStore, cleanupDue, admitted, blockedAt,
                verdict, sent, ticksLeft>>

\* The variables the server does not use.
scriptVars == <<disk, pc, resume, progress, toProcess, i,
                consecutiveInBatch, chain, orphans, resolved, call, attempt,
                savedLen, processed, stage, outputs, pauses, diskFull,
                options, gap, called, throwsLeft, runsLeft, forksLeft>>

LimitTypes == {"general", "search", "auth"}
NoTime == <<>>
NoBlock == <<>>
NoVerdict == [ip |-> "", kind |-> "none"]
ClientIPs == IF cfg.script = "server" THEN cfg.ips ELSE {}

\* The variables only scrape() uses.
scrapeVars == <<processed, stage, outputs>>

InitRun ==
    /\ members = IF cfg.script = "server" THEN <<>>
                 ELSE [k \in 1..cfg.items |-> k]
    /\ disk = NoFiles(cfg.script)
    /\ pc = "off"
    /\ resume = FALSE
    /\ progress = FreshMemory(cfg.script)
    /\ processed = 0
    /\ stage = "none"
    /\ outputs = <<>>
    /\ toProcess = <<>>
    /\ i = 0
    /\ consecutiveInBatch = 0
    /\ chain = NoChain
    /\ orphans = <<>>
    /\ resolved = "none"
    /\ call = NewCall
    /\ attempt = NoAttempt
    /\ savedLen = 0
    /\ pauses = 0
    /\ diskFull = FALSE
    /\ options = DefaultOptions
    /\ gap = <<>>
    /\ called = FALSE
    /\ now = 0
    /\ rateLimitStore = <<>>
    /\ cleanupDue = 0
    /\ admitted = [ip \in ClientIPs |-> [type \in LimitTypes |-> <<>>]]
    /\ blockedAt = [ip \in ClientIPs |-> NoBlock]
    /\ verdict = NoVerdict
    /\ sent = 0
    /\ ticksLeft = IF cfg.script = "server" THEN cfg.ticks ELSE 0
    /\ throwsLeft = cfg.throws
    /\ runsLeft = cfg.runs
    /\ forksLeft = cfg.forks

Init == cfg \in Scenarios /\ InitRun

InitLive == cfg \in LiveScenarios /\ InitRun

\* The member of the current iteration.
member == toProcess[i + 1]

(***************************************************************************)
(* node enrich_investors.js [--resume]: load or initialise the progress    *)
(* and compute toProcess (lines 549-591).                                  *)
(***************************************************************************)
Start ==
    /\ cfg.script = "enrich"
    /\ pc \in {"off", "done", "failed"}
    /\ runsLeft > 0
    /\ \E r \in BOOLEAN, l \in cfg.limits, dl \in cfg.delays,
          dry \in cfg.dryRuns :
         LET opts == [limit |-> l, delay |-> dl, dryRun |-> dry]
             p == IF r THEN loadProgress(disk) ELSE EmptyProgress
             todo == SliceLimit(FilterOut(members, Range(p.processedIds)), l)
         IN /\ resume' = r
            /\ options' = opts
            /\ progress' = p
            /\ toProcess' = todo
            /\ savedLen' = Len(p.processedIds)
            /\ pc' = IF ReturnsEarly(opts, todo) THEN "done" ELSE "loop"
    /\ gap' = <<>>
    /\ runsLeft' = runsLeft - 1
    /\ i' = 0
    /\ consecutiveInBatch' = 0
    /\ pauses' = 0
    /\ chain' = NoChain
    /\ orphans' = <<>>
    /\ resolved' = "none"
    /\ call' = NewCall
    /\ attempt' = NoAttempt
    /\ UNCHANGED <<cfg, members, serverVars, called, diskFull, scrapeVars, disk, throwsLeft, forksLeft>>

\* The body of the catch-all of the loop (lines 638-645): save, then sleep.
\* When the write fails, saveProgress throws out of the catch block: enrich()
\* rejects, the catch of the entry point (lines 698-704) logs, and the
\* process ends.
CatchBody(p) ==
    IF diskFull
    THEN /\ pc' = "failed"
         /\ UNCHANGED <<disk, savedLen>>
    ELSE /\ disk' = saveProgress(p)
         /\ savedLen' = Len(p.processedIds)
         /\ pc' = "catchSleep"

\* The catch-all entered by an exception of the loop body.
CatchAll(p) ==
    /\ CatchBody(p)
    /\ throwsLeft' = throwsLeft - 1

(***************************************************************************)
(* Top of an iteration (lines 593-605): printProgress, then the periodic   *)
(* pause with its checkpoint.                                              *)
(***************************************************************************)
Iterate ==
    /\ pc = "loop"
    /\ i < Len(toProcess)
    /\ \E thrown \in (IF throwsLeft > 0 THEN BOOLEAN ELSE {FALSE}) :
         IF thrown
         THEN /\ CatchAll(progress)
              /\ UNCHANGED pauses
         ELSE /\ IF consecutiveInBatch > 0
                    /\ consecutiveInBatch % cfg.pauseEvery = 0
                 THEN IF diskFull
                      THEN /\ CatchBody(progress)
                           /\ UNCHANGED pauses
                      ELSE /\ disk' = saveProgress(progress)
                           /\ savedLen' = Len(progress.processedIds)
                           /\ pauses' = pauses + 1
                           /\ pc' = "pause"
                 ELSE /\ pc' = "delay"
                      /\ UNCHANGED <<disk, savedLen, pauses>>
              /\ UNCHANGED throwsLeft
    /\ UNCHANGED <<cfg, members, serverVars, called, diskFull, options, gap, scrapeVars, resume, progress, toProcess, i,
                   consecutiveInBatch, chain, orphans, resolved, call,
                   attempt, runsLeft, forksLeft>>

\* await sleep(CONFIG.PAUSE_DURATION) returns (line 603).
AfterPause ==
    /\ pc = "pause"
    /\ pc' = "delay"
    /\ UNCHANGED <<cfg, members, serverVars, called, diskFull, options, gap, pauses, scrapeVars, disk, resume, progress, toProcess, i,
                   consecutiveInBatch, chain, orphans, resolved, call,
                   attempt, savedLen, throwsLeft, runsLeft, forksLeft>>

\* await sleep(options.delay) returns and enrichLinkedInProfile(url) is
\* called: the first request of the item is sent (lines 608-609, 156-216).
CallApi ==
    /\ pc = "delay"
    /\ pc' = "fetch"
    /\ chain' = [phase |-> "request", rc |-> 0]
    /\ call' = [NewCall EXCEPT !.requests = 1]
    /\ attempt' = NoAttempt
    /\ resolved' = "none"
    /\ gap' = <<options.delay>>
    /\ UNCHANGED <<cfg, members, serverVars, called, diskFull, options, pauses, scrapeVars, disk, resume, progress, toProcess, i,
                   consecutiveInBatch, orphans, savedLen, throwsLeft,
                   runsLeft, forksLeft>>

\* Set or remove element k of a sequence.
RemoveAt(s, k) == SubSeq(s, 1, k - 1) \o SubSeq(s, k + 1, Len(s))

\* Outcomes the upstream may give to a request at retryCount rc: the retry
\* counter is capped, so the last attempt allowed ends in a terminal outcome.
IsRetry(o) ==
    IF cfg.script = "scrape" THEN ScraperClassify(o) = "retry"
    ELSE Classify(o) = "retry"

Allowed(rc) == {o \in cfg.outcomes : IsRetry(o) => rc < cfg.retryCap}

\* Whether req.destroy() of the timeout callback emits 'error' as well.
DestroyChoices(o) ==
    IF o = "timeout" /\ forksLeft > 0 THEN BOOLEAN ELSE {FALSE}

(***************************************************************************)
(* The request the awaited promise follows gets its outcome; the handlers  *)
(* of enrichLinkedInProfile run (lines 156-214).                           *)
(***************************************************************************)
Respond ==
    /\ pc = "fetch"
    /\ chain.phase = "request"
    /\ \E o \in Allowed(chain.rc) : \E d \in DestroyChoices(o) :
         LET n == Handlers(o, d)
             a == Classify(o)
             delay == RetryDelay(o, chain.rc)
         IN /\ attempt' = [outcome |-> o, rc |-> chain.rc,
                           profile |-> IF a = "profile" THEN n ELSE 0,
                           null |-> IF a = "null" THEN n ELSE 0,
                           retry |-> IF a = "retry" THEN n ELSE 0]
            /\ IF a = "retry"
               THEN /\ chain' = [phase |-> "sleep", rc |-> chain.rc + 1]
                    /\ call' = [call EXCEPT !.retries = @ + n,
                                            !.prevDelay = call.lastDelay,
                                            !.lastDelay = delay]
                    /\ orphans' =
                         IF n = 2
                         THEN Append(orphans, [id |-> member, current |-> TRUE,
                                               phase |-> "sleep",
                                               rc |-> chain.rc + 1])
                         ELSE orphans
                    /\ forksLeft' = IF n = 2 THEN forksLeft - 1 ELSE forksLeft
                    /\ UNCHANGED <<pc, resolved>>
               ELSE /\ chain' = NoChain
                    /\ resolved' = a
                    /\ pc' = "result"
                    /\ orphans' = [k \in 1..Len(orphans) |->
                                     [orphans[k] EXCEPT !.current = FALSE]]
                    /\ UNCHANGED <<call, forksLeft>>
    /\ UNCHANGED <<cfg, members, serverVars, called, diskFull, options, gap, pauses, scrapeVars, disk, resume, progress, toProcess, i,
                   consecutiveInBatch, savedLen, throwsLeft, runsLeft>>

\* The retry that the second handler of the same attempt scheduled (same
\* delay, same tick) has sent its request already.
TwinStarted(rc) ==
    \E k \in 1..Len(orphans) :
        orphans[k].current /\ orphans[k].phase = "request" /\ orphans[k].rc = rc

\* RetryWake counting the item in progress.stats at every retry.
RetryWakeCounting ==
    /\ pc = "fetch"
    /\ chain.phase = "sleep"
    /\ chain' = [chain EXCEPT !.phase = "request"]
    /\ call' = [call EXCEPT !.requests = @ + 1]
    /\ gap' = IF TwinStarted(chain.rc) THEN <<0>> ELSE <<call.lastDelay>>
    /\ progress' = [progress EXCEPT !.stats.total = @ + 1]
    /\ UNCHANGED <<cfg, members, serverVars, called, diskFull, options, pauses, scrapeVars, disk, pc, resume, toProcess, i,
                   consecutiveInBatch, orphans, resolved, attempt, savedLen,
                   throwsLeft, runsLeft, forksLeft>>

\* sleep(delay) of a scheduled retry ends: enrichLinkedInProfile(url,
\* retryCount + 1) sends the next request.
RetryWake ==
    /\ pc = "fetch"
    /\ chain.phase = "sleep"
    /\ chain' = [chain EXCEPT !.phase = "request"]
    /\ call' = [call EXCEPT !.requests = @ + 1]
    /\ gap' = IF TwinStarted(chain.rc) THEN <<0>> ELSE <<call.lastDelay>>
    /\ UNCHANGED <<cfg, members, serverVars, called, diskFull, options, pauses, scrapeVars, disk, pc, resume, progress, toProcess, i,
                   consecutiveInBatch, orphans, resolved, attempt, savedLen,
                   throwsLeft, runsLeft, forksLeft>>

\* The second retry scheduled by one attempt sends its request; no promise
\* follows it.
OrphanWake ==
    /\ cfg.script = "basic" => pc \in {"bfirst", "bpage", "bdetail", "done"}
    /\ \E k \in 1..Len(orphans) :
         /\ orphans[k].phase = "sleep"
         /\ orphans' = [orphans EXCEPT ![k].phase = "request"]
         /\ call' = IF orphans[k].current
                    THEN [call EXCEPT !.requests = @ + 1]
                    ELSE call
         /\ gap' = IF orphans[k].current /\ chain.phase = "request"
                       /\ chain.rc = orphans[k].rc
                    THEN <<0>> ELSE gap
    /\ UNCHANGED <<cfg, members, serverVars, called, diskFull, options, pauses, scrapeVars, disk, pc, resume, progress, toProcess, i,
                   consecutiveInBatch, chain, resolved, attempt, savedLen,
                   throwsLeft, runsLeft, forksLeft>>

\* The outcomes of a request no promise follows, and whether its handler
\* schedules a retry.
OrphanOutcomes(rc) == IF cfg.script = "basic" THEN cfg.outcomes ELSE Allowed(rc)

OrphanRetries(o, rc) ==
    IF cfg.script = "basic" THEN BasicClassify(o, rc) = "retry" ELSE IsRetry(o)

\* An orphan request gets its outcome: a retryable one schedules its next
\* retry, a terminal one resolves a promise that is already settled.  (A
\* timeout of an orphan is taken to fire one handler only.)
OrphanRespond ==
    /\ \E k \in 1..Len(orphans) :
         /\ orphans[k].phase = "request"
         /\ \E o \in OrphanOutcomes(orphans[k].rc) :
              orphans' = IF OrphanRetries(o, orphans[k].rc)
                         THEN [orphans EXCEPT ![k].phase = "sleep",
                                              ![k].rc = @ + 1]
                         ELSE RemoveAt(orphans, k)
    /\ UNCHANGED <<cfg, members, serverVars, called, diskFull, options, gap, pauses, scrapeVars, disk, pc, resume, progress, toProcess, i,
                   consecutiveInBatch, chain, resolved, call, attempt,
                   savedLen, throwsLeft, runsLeft, forksLeft>>

\* Pushed counting in stats.total only the members a profile was found for.
PushedTotalIfFound(p, em) ==
    [processedIds |-> Append(p.processedIds, em.id),
     enrichedMembers |-> Append(p.enrichedMembers, em),
     stats |-> [p.stats EXCEPT
                  !.total = IF em.enriched THEN @ + 1 ELSE @,
                  !.enriched = IF em.enriched THEN @ + 1 ELSE @,
                  !.notFound = IF em.enriched THEN @ ELSE @ + 1]]

\* Lines 613-615 and 617-626 applied to a progress record.
Pushed(p, em) ==
    [processedIds |-> Append(p.processedIds, em.id),
     enrichedMembers |-> Append(p.enrichedMembers, em),
     stats |-> [p.stats EXCEPT
                  !.total = @ + 1,
                  !.enriched = IF em.enriched THEN @ + 1 ELSE @,
                  !.notFound = IF em.enriched THEN @ ELSE @ + 1]]

\* Where the processing of a result can throw: in extractEnrichedData
\* (line 612) or in the e-mail display (lines 619-623), both only for a
\* profile.  A profile whose `experience` is not an array throws in
\* extractEnrichedData (.map, line 286) every time it is processed.
ThrowPoints ==
    IF resolved = "profile" /\ member \in cfg.poison
    THEN {"experience"}
    ELSE IF throwsLeft > 0 /\ resolved = "profile"
         THEN {"none", "extract", "email"}
         ELSE {"none"}

(***************************************************************************)
(* The awaited promise resolved: process the result (lines 611-628).       *)
(***************************************************************************)
RecordResult ==
    /\ pc = "result"
    /\ LET em == extractEnrichedData(member, resolved)
       IN \E t \in ThrowPoints :
            CASE t = "none" ->
                   /\ progress' = Pushed(progress, em)
                   /\ consecutiveInBatch' = consecutiveInBatch + 1
                   /\ pc' = "save"
                   /\ UNCHANGED <<disk, savedLen, throwsLeft>>
              [] t = "extract" ->
                   /\ CatchAll(progress)
                   /\ UNCHANGED <<progress, consecutiveInBatch>>
              [] t = "experience" ->
                   /\ CatchBody(progress)
                   /\ UNCHANGED <<progress, consecutiveInBatch, throwsLeft>>
              [] t = "email" ->
                   /\ progress' = Pushed(progress, em)
                   /\ CatchAll(Pushed(progress, em))
                   /\ UNCHANGED consecutiveInBatch
    /\ resolved' = "none"
    /\ call' = NewCall
    /\ attempt' = NoAttempt
    /\ gap' = <<>>
    /\ UNCHANGED <<cfg, members, serverVars, called, diskFull, options, pauses, scrapeVars, resume, toProcess, i, chain, orphans,
                   runsLeft, forksLeft>>

\* PeriodicSave testing i instead of i + 1 (and skipping i = 0).
PeriodicSaveLate ==
    /\ pc = "save"
    /\ IF i > 0 /\ i % ENRICH_SAVE_EVERY = 0
       THEN IF diskFull
            THEN /\ CatchBody(progress)
                 /\ UNCHANGED i
            ELSE /\ disk' = saveProgress(progress)
                 /\ savedLen' = Len(progress.processedIds)
                 /\ i' = i + 1
                 /\ pc' = "loop"
       ELSE /\ i' = i + 1
            /\ pc' = "loop"
            /\ UNCHANGED <<disk, savedLen>>
    /\ UNCHANGED <<cfg, members, serverVars, called, diskFull, options, gap, pauses, scrapeVars, resume, progress, toProcess,
                   consecutiveInBatch, chain, orphans, resolved, call,
                   attempt, throwsLeft, runsLeft, forksLeft>>

\* Lines 630-636: the periodic save, then i++.  A failing write throws into
\* the catch-all before i++.
PeriodicSave ==
    /\ pc = "save"
    /\ IF (i + 1) % ENRICH_SAVE_EVERY = 0
       THEN IF diskFull
            THEN /\ CatchBody(progress)
                 /\ UNCHANGED i
            ELSE /\ disk' = saveProgress(progress)
                 /\ savedLen' = Len(progress.processedIds)
                 /\ i' = i + 1
                 /\ pc' = "loop"
       ELSE /\ i' = i + 1
            /\ pc' = "loop"
            /\ UNCHANGED <<disk, savedLen>>
    /\ UNCHANGED <<cfg, members, serverVars, called, diskFull, options, gap, pauses, scrapeVars, resume, progress, toProcess,
                   consecutiveInBatch, chain, orphans, resolved, call,
                   attempt, throwsLeft, runsLeft, forksLeft>>

\* await sleep(CONFIG.INITIAL_RETRY_DELAY) of the catch-all returns; i is
\* unchanged (lines 645-649).
CatchResume ==
    /\ pc = "catchSleep"
    /\ pc' = "loop"
    /\ UNCHANGED <<cfg, members, serverVars, called, diskFull, options, gap, pauses, scrapeVars, disk, resume, progress, toProcess, i,
                   consecutiveInBatch, chain, orphans, resolved, call,
                   attempt, savedLen, throwsLeft, runsLeft, forksLeft>>

\* The loop ends: final saveProgress (lines 652-656).  When the write
\* fails, enrich() rejects and the catch of the entry point logs
\* (lines 698-704).
Finish ==
    /\ cfg.script = "enrich"
    /\ pc = "loop"
    /\ i >= Len(toProcess)
    /\ IF diskFull
       THEN /\ pc' = "failed"
            /\ UNCHANGED <<disk, savedLen>>
       ELSE /\ disk' = saveProgress(progress)
            /\ savedLen' = Len(progress.processedIds)
            /\ pc' = "done"
    /\ UNCHANGED <<cfg, members, serverVars, called, diskFull, options, gap, pauses, scrapeVars, resume, progress, toProcess, i,
                   consecutiveInBatch, chain, orphans, resolved, call,
                   attempt, throwsLeft, runsLeft, forksLeft>>

\* Where a kill can cut a writeFileSync short: in enrich() and the scrapers
\* when the progress file holds the in-memory record, in
\* investor-enrichment.js at saveResearchCache after a research (line 439).
TearPoint ==
    IF cfg.script = "research" THEN pc = "mcached"
    ELSE disk.exists /\ disk.data = progress

\* The process is killed: everything in memory is lost, the file stays.  A
\* kill inside the writeFileSync of the current record can leave it torn.
Kill ==
    /\ pc \notin {"off", "done", "failed", "exited"}
    /\ runsLeft > 0
    /\ pc' = "off"
    /\ progress' = FreshMemory(cfg.script)
    /\ processed' = 0
    /\ stage' = "none"
    /\ toProcess' = <<>>
    /\ i' = 0
    /\ consecutiveInBatch' = 0
    /\ chain' = NoChain
    /\ orphans' = <<>>
    /\ resolved' = "none"
    /\ call' = NewCall
    /\ attempt' = NoAttempt
    /\ savedLen' = 0
    /\ pauses' = 0
    /\ options' = DefaultOptions
    /\ gap' = <<>>
    /\ called' = FALSE
    /\ resume' = FALSE
    /\ \E torn \in (IF cfg.tears /\ TearPoint THEN BOOLEAN ELSE {FALSE}) :
         disk' = IF ~torn THEN disk
                 ELSE IF cfg.script = "research"
                      THEN [disk EXCEPT !.cache = Torn(@)]
                      ELSE Torn(disk)
    /\ UNCHANGED <<cfg, members, serverVars, diskFull, outputs, throwsLeft, runsLeft,
                   forksLeft>>

\* The disk runs full: from now on every writeFileSync of the progress file
\* throws.
DiskFills ==
    /\ cfg.diskFaults
    /\ ~diskFull
    /\ pc \notin {"off", "done", "failed"}
    /\ diskFull' = TRUE
    /\ UNCHANGED <<cfg, members, serverVars, called, pauses, options, gap, scrapeVars, disk, pc,
                   resume, progress,
                   toProcess, i, consecutiveInBatch, chain, orphans, resolved,
                   call, attempt, savedLen, throwsLeft, runsLeft, forksLeft>>

(***************************************************************************)
(* Full scraper: scrape().                                                 *)
(***************************************************************************)
\* saveProgress of the full scraper.
ScraperSaveProgress(p) == [exists |-> TRUE, ok |-> TRUE, data |-> p]

\* The slug of the current iteration of the per-investor loop.
slug == toProcess[i + 1]

\* scrape(options) from its entry to its first await (lines 1242-1272,
\* 1306-1318): load or initialise the progress, then either request the
\* first list page or start the per-investor loop on the cached list.
ScraperEnter(r, was) ==
    LET p == IF r THEN ScraperLoadProgress(disk) ELSE ScraperFresh
    IN /\ resume' = r
       /\ progress' = p
       /\ savedLen' = Len(p.processedSlugs)
       /\ toProcess' = p.allSlugs
       /\ processed' = Len(p.processedSlugs)
       /\ consecutiveInBatch' = 0
       /\ i' = 0
       /\ stage' = "none"
       /\ resolved' = "none"
       /\ attempt' = NoAttempt
       /\ IF p.allSlugs = <<>>
          THEN /\ pc' = "slist"
               /\ chain' = [phase |-> "request", rc |-> 0]
               /\ call' = [NewCall EXCEPT !.requests = 1]
               /\ gap' = IF was THEN <<OUTER_RETRY_WAIT>> ELSE <<>>
               /\ called' = TRUE
          ELSE /\ pc' = "sloop"
               /\ chain' = NoChain
               /\ call' = NewCall
               /\ gap' = IF was THEN gap ELSE <<>>
               /\ called' = was

\* node visible_investor_scraper.js [--resume]
ScraperStart ==
    /\ cfg.script = "scrape"
    /\ pc \in {"off", "done"}
    /\ runsLeft > 0
    /\ \E r \in BOOLEAN : ScraperEnter(r, FALSE)
    /\ \E l \in cfg.limits : \E d \in cfg.delays :
         options' = [limit |-> l, delay |-> d, dryRun |-> FALSE]
    /\ runsLeft' = runsLeft - 1
    /\ orphans' = <<>>
    /\ UNCHANGED <<cfg, members, serverVars, diskFull, pauses, disk, outputs, throwsLeft, forksLeft>>

\* The outer catch of scrape() (lines 1404-1417): save if anything was
\* processed, then sleep five minutes.
ScraperOuterCatch(p) ==
    /\ IF Len(p.processedSlugs) > 0
       THEN /\ disk' = ScraperSaveProgress(p)
            /\ outputs' = p.investors
            /\ savedLen' = Len(p.processedSlugs)
       ELSE UNCHANGED <<disk, outputs, savedLen>>
    /\ pc' = "sretry"

\* The five-minute sleep ends: scrape(options) with options.resume = true
\* (lines 1417-1422).
ScraperRetry ==
    /\ pc = "sretry"
    /\ ScraperEnter(TRUE, called)
    /\ UNCHANGED <<cfg, members, serverVars, diskFull, options, pauses, disk, orphans, outputs, throwsLeft,
                   runsLeft, forksLeft>>

\* A request of makeRequest gets its outcome; its handlers run
\* (lines 752-801).
ScraperRespond ==
    /\ pc \in {"slist", "sfetch"}
    /\ chain.phase = "request"
    /\ \E o \in Allowed(chain.rc) : \E d \in DestroyChoices(o) :
       \E j \in (IF ScraperClassify(o) = "retry" THEN Jitters ELSE {0}) :
         LET n == Handlers(o, d)
             a == ScraperClassify(o)
             delay == ScraperRetryDelay(o, chain.rc, j)
         IN /\ attempt' = [outcome |-> o, rc |-> chain.rc,
                           profile |-> IF a \in {"data", "empty"} THEN n ELSE 0,
                           null |-> IF a = "null" THEN n ELSE 0,
                           retry |-> IF a = "retry" THEN n ELSE 0]
            /\ IF a = "retry"
               THEN /\ chain' = [phase |-> "sleep", rc |-> chain.rc + 1]
                    /\ call' = [call EXCEPT !.retries = @ + n,
                                            !.prevDelay = call.lastDelay,
                                            !.lastDelay = delay]
                    /\ orphans' =
                         IF n = 2
                         THEN Append(orphans, [id |-> 0, current |-> TRUE,
                                               phase |-> "sleep",
                                               rc |-> chain.rc + 1])
                         ELSE orphans
                    /\ forksLeft' = IF n = 2 THEN forksLeft - 1 ELSE forksLeft
                    /\ UNCHANGED <<pc, resolved>>
               ELSE /\ chain' = NoChain
                    /\ resolved' = a
                    /\ pc' = IF pc = "slist" THEN "slistdone" ELSE "sgot"
                    /\ orphans' = [k \in 1..Len(orphans) |->
                                     [orphans[k] EXCEPT !.current = FALSE]]
                    /\ UNCHANGED <<call, forksLeft>>
    /\ UNCHANGED <<cfg, members, serverVars, called, diskFull, options, gap, pauses, scrapeVars, disk, resume, progress,
                   toProcess, i, consecutiveInBatch, savedLen, throwsLeft,
                   runsLeft>>

\* sleep(delay) of a scheduled retry ends: makeRequest(endpoint,
\* retryCount + 1) sends the next request.
ScraperRetryWake ==
    /\ pc \in {"slist", "sfetch"}
    /\ chain.phase = "sleep"
    /\ chain' = [chain EXCEPT !.phase = "request"]
    /\ call' = [call EXCEPT !.requests = @ + 1]
    /\ gap' = IF TwinStarted(chain.rc) THEN <<0>> ELSE <<call.lastDelay>>
    /\ UNCHANGED <<cfg, members, serverVars, called, diskFull, options, pauses, scrapeVars, disk, pc, resume, progress,
                   toProcess, i, consecutiveInBatch, orphans, resolved,
                   attempt, savedLen, throwsLeft, runsLeft, forksLeft>>

\* fetchInvestorsList(offset, PAGE_SIZE) answered with data (lines 899-903):
\* the upstream returns full pages of its list.
ListPage(offset) ==
    SubSeq(members, offset + 1, Min(offset + PAGE_SIZE, Len(members)))

\* Math.min(totalAvailable, options.limit) (line 1274).
ScraperTotal(available, limit) ==
    IF limit = NoLimit THEN available ELSE Min(available, limit[1])

\* Phase 1 (lines 1272-1305): a list page arrived.  toProcess holds the
\* local allSlugs, empty until the first page is in; with full pages the
\* local offset equals its length as long as the loop goes on.  A skipped
\* request (null) makes firstPage.meta or page.data throw into the outer
\* catch.  The first page is taken whole (line 1282), later pages up to
\* progress.total (lines 1292-1295); an empty later page ends the loop
\* (line 1290).
ScraperListDone ==
    /\ pc = "slistdone"
    /\ IF resolved = "null"
       THEN /\ ScraperOuterCatch(progress)
            /\ UNCHANGED <<progress, toProcess, processed>>
       ELSE LET first == toProcess = <<>>
                page == IF resolved = "data"
                        THEN ListPage(Len(toProcess)) ELSE <<>>
                total == IF first
                         THEN ScraperTotal(IF resolved = "data"
                                           THEN Len(members) ELSE 0,
                                           options.limit)
                         ELSE progress.total
                all == IF first
                       THEN page
                       ELSE toProcess
                            \o SubSeq(page, 1,
                                      Min(Len(page), total - Len(toProcess)))
                more == Len(all) < total /\ (first \/ page # <<>>)
                p == [progress EXCEPT !.allSlugs = all, !.total = Len(all)]
            IN IF more
               THEN /\ progress' = [progress EXCEPT !.total = total]
                    /\ toProcess' = all
                    /\ pc' = "slistwait"
                    /\ UNCHANGED <<disk, savedLen, processed, outputs>>
               ELSE /\ progress' = p
                    /\ disk' = ScraperSaveProgress(p)
                    /\ savedLen' = Len(p.processedSlugs)
                    /\ toProcess' = all
                    /\ processed' = Len(p.processedSlugs)
                    /\ pc' = "sloop"
                    /\ UNCHANGED outputs
    /\ resolved' = "none"
    /\ call' = NewCall
    /\ attempt' = NoAttempt
    /\ UNCHANGED <<cfg, members, serverVars, called, diskFull, options, gap, pauses, resume, i, consecutiveInBatch, chain,
                   orphans, stage, throwsLeft, runsLeft, forksLeft>>

\* await sleep(options.delay / 2) returns and the next list page is
\* requested (lines 1287-1289).
ScraperListCall ==
    /\ pc = "slistwait"
    /\ pc' = "slist"
    /\ chain' = [phase |-> "request", rc |-> 0]
    /\ call' = [NewCall EXCEPT !.requests = 1]
    /\ gap' = <<options.delay \div 2>>
    /\ UNCHANGED <<cfg, members, serverVars, called, diskFull, options, pauses, scrapeVars, disk, resume, progress,
                   toProcess, i, consecutiveInBatch, orphans, resolved,
                   attempt, savedLen, throwsLeft, runsLeft, forksLeft>>

\* Top of an iteration of the per-investor loop (lines 1320-1333).
ScraperIterate ==
    /\ pc = "sloop"
    /\ i < Len(toProcess)
    /\ IF slug \in Range(progress.processedSlugs)
       THEN /\ i' = i + 1
            /\ UNCHANGED <<pc, disk, outputs, savedLen, stage, throwsLeft>>
       ELSE /\ processed < progress.total
            /\ i' = i
            /\ \E thrown \in (IF throwsLeft > 0 THEN BOOLEAN ELSE {FALSE}) :
                 IF thrown
                 THEN /\ ScraperOuterCatch(progress)
                      /\ throwsLeft' = throwsLeft - 1
                      /\ UNCHANGED stage
                 ELSE /\ stage' = "investor"
                      /\ UNCHANGED throwsLeft
                      /\ IF consecutiveInBatch > 0
                            /\ consecutiveInBatch % cfg.pauseEvery = 0
                         THEN /\ disk' = ScraperSaveProgress(progress)
                              /\ outputs' = progress.investors
                              /\ savedLen' = Len(progress.processedSlugs)
                              /\ pc' = "spause"
                         ELSE /\ pc' = "sdelay"
                              /\ UNCHANGED <<disk, outputs, savedLen>>
    /\ UNCHANGED <<cfg, members, serverVars, called, diskFull, options, gap, pauses, resume, progress, toProcess, processed,
                   consecutiveInBatch, chain, orphans, resolved, call,
                   attempt, runsLeft, forksLeft>>

\* await sleep(CONFIG.PAUSE_DURATION) returns (line 1332).
ScraperAfterPause ==
    /\ pc = "spause"
    /\ pc' = "sdelay"
    /\ UNCHANGED <<cfg, members, serverVars, called, diskFull, options, gap, pauses, scrapeVars, disk, resume, progress,
                   toProcess, i, consecutiveInBatch, chain, orphans,
                   resolved, call, attempt, savedLen, throwsLeft, runsLeft,
                   forksLeft>>

\* What the loop sleeps between the previous request and the fetch of the
\* current stage: options.delay before the investor (line 1337), after
\* PAUSE_DURATION when the batch pause was taken (lines 1328-1333);
\* MIN_DELAY_BETWEEN_CALLS before the team and the investments (lines 1345,
\* 1354).
ScraperSleepBefore ==
    IF stage = "investor"
    THEN options.delay
         + (IF consecutiveInBatch > 0 /\ consecutiveInBatch % cfg.pauseEvery = 0
            THEN SCRAPER_PAUSE_DURATION ELSE 0)
    ELSE MIN_DELAY_BETWEEN_CALLS

\* The sleep before a fetch returns and the fetch of the current stage calls
\* makeRequest (lines 1337-1338, 1345-1346, 1354-1355).
ScraperCall ==
    /\ pc = "sdelay"
    /\ pc' = "sfetch"
    /\ chain' = [phase |-> "request", rc |-> 0]
    /\ call' = [NewCall EXCEPT !.requests = 1]
    /\ attempt' = NoAttempt
    /\ resolved' = "none"
    /\ gap' = IF called THEN <<ScraperSleepBefore>> ELSE <<>>
    /\ called' = TRUE
    /\ UNCHANGED <<cfg, members, serverVars, diskFull, options, pauses, scrapeVars, disk, resume, progress,
                   toProcess, i, consecutiveInBatch, orphans, savedLen,
                   throwsLeft, runsLeft, forksLeft>>

\* Lines 1363-1366 and 1372-1375: the slug is marked processed.
MarkProcessed(p) ==
    /\ progress' = [p EXCEPT !.processedSlugs = Append(@, slug)]
    /\ processed' = processed + 1
    /\ consecutiveInBatch' = consecutiveInBatch + 1
    /\ stage' = "none"
    /\ pc' = "ssave"

\* A fetch of the current investor resolved (lines 1338-1376).  thrown: the
\* extract function of the stage throws into the inner catch.
ScraperGot ==
    /\ pc = "sgot"
    /\ \E thrown \in (IF throwsLeft > 0 /\ resolved = "data"
                      THEN BOOLEAN ELSE {FALSE}) :
         /\ throwsLeft' = IF thrown THEN throwsLeft - 1 ELSE throwsLeft
         /\ CASE thrown -> MarkProcessed(progress)
              [] ~thrown /\ stage = "investor" /\ resolved # "data" ->
                   MarkProcessed(progress)
              [] ~thrown /\ stage = "investor" /\ resolved = "data" ->
                   /\ progress' = [progress EXCEPT
                                     !.investors = Append(@, slug)]
                   /\ stage' = "team"
                   /\ pc' = "sdelay"
                   /\ UNCHANGED <<processed, consecutiveInBatch>>
              [] ~thrown /\ stage = "team" ->
                   /\ progress' = IF resolved = "data"
                                  THEN [progress EXCEPT
                                          !.teamMembers = Append(@, slug)]
                                  ELSE progress
                   /\ stage' = "rounds"
                   /\ pc' = "sdelay"
                   /\ UNCHANGED <<processed, consecutiveInBatch>>
              [] ~thrown /\ stage = "rounds" ->
                   MarkProcessed(IF resolved = "data"
                                 THEN [progress EXCEPT
                                         !.investments = Append(@, slug)]
                                 ELSE progress)
    /\ resolved' = "none"
    /\ call' = NewCall
    /\ attempt' = NoAttempt
    /\ UNCHANGED <<cfg, members, serverVars, called, diskFull, options, gap, pauses, disk, resume, toProcess, i, chain, orphans,
                   savedLen, outputs, runsLeft, forksLeft>>

\* Lines 1378-1381: the periodic save, then the next slug.
ScraperPeriodicSave ==
    /\ pc = "ssave"
    /\ IF processed % SAVE_EVERY = 0
       THEN /\ disk' = ScraperSaveProgress(progress)
            /\ savedLen' = Len(progress.processedSlugs)
       ELSE UNCHANGED <<disk, savedLen>>
    /\ i' = i + 1
    /\ pc' = "sloop"
    /\ UNCHANGED <<cfg, members, serverVars, called, diskFull, options, gap, pauses, scrapeVars, resume, progress, toProcess,
                   consecutiveInBatch, chain, orphans, resolved, call,
                   attempt, throwsLeft, runsLeft, forksLeft>>

\* The loop ends (lines 1320-1323, 1384-1389): saveOutputs, clearProgress.
ScraperFinish ==
    /\ cfg.script = "scrape"
    /\ pc = "sloop"
    /\ \/ i >= Len(toProcess)
       \/ /\ i < Len(toProcess)
          /\ slug \notin Range(progress.processedSlugs)
          /\ processed >= progress.total
    /\ outputs' = progress.investors
    /\ disk' = ScraperNoFile
    /\ savedLen' = Len(progress.processedSlugs)
    /\ pc' = "done"
    /\ UNCHANGED <<cfg, members, serverVars, called, diskFull, options, gap, pauses, resume, progress, toProcess, i, processed,
                   stage, consecutiveInBatch, chain, orphans, resolved,
                   call, attempt, throwsLeft, runsLeft, forksLeft>>

(***************************************************************************)
(* investor-enrichment.js: main().                                         *)
(***************************************************************************)
\* The investor of the current iteration.
investor == toProcess[i + 1]

\* node investor-enrichment.js [--limit n] [--resume] [--dry-run]: main()
\* from its entry to the loop (lines 335-413).  The input lists investors
\* in priority order.
MainStart ==
    /\ cfg.script = "research"
    /\ pc \in {"off", "done"}
    /\ runsLeft > 0
    /\ \E r \in BOOLEAN, l \in cfg.limits, dry \in cfg.dryRuns :
         LET opts == [limit |-> l, delay |-> DEFAULT_DELAY, dryRun |-> dry]
             ids == IF r THEN LoadFile(disk.progress, <<>>) ELSE <<>>
             data == IF r THEN LoadFile(disk.enriched, {}) ELSE {}
             todo == SliceLimit(FilterOut(members, Range(ids)), l)
             early == ReturnsEarly(opts, todo)
         IN /\ resume' = r
            /\ options' = opts
            /\ toProcess' = todo
            /\ savedLen' = Len(ids)
            /\ progress' =
                 [enriched_ids |-> ids, enrichedData |-> data,
                  researchCache |-> IF early THEN {}
                                    ELSE LoadFile(disk.cache, {})]
            /\ pc' = IF early THEN "done" ELSE "mloop"
    /\ runsLeft' = runsLeft - 1
    /\ i' = 0
    /\ chain' = NoChain
    /\ resolved' = "none"
    /\ call' = NewCall
    /\ UNCHANGED <<cfg, members, serverVars, called, diskFull, gap, pauses, scrapeVars, disk,
                   consecutiveInBatch, orphans, attempt, throwsLeft,
                   forksLeft>>

\* Top of an iteration (lines 415-434, 443-444): cached research goes
\* straight to the analysis, otherwise the Tavily searches start.
MainIterate ==
    /\ pc = "mloop"
    /\ i < Len(toProcess)
    /\ IF investor \in progress.researchCache
       THEN /\ pc' = "manalyze"
            /\ chain' = [phase |-> "request", rc |-> 0]
            /\ call' = [NewCall EXCEPT !.requests = 1]
       ELSE /\ pc' = "mresearch"
            /\ chain' = NoChain
            /\ call' = NewCall
    /\ UNCHANGED <<cfg, members, serverVars, called, diskFull, options, gap, pauses, scrapeVars,
                   disk, resume, progress, toProcess, i, consecutiveInBatch,
                   orphans, resolved, attempt, savedLen, throwsLeft,
                   runsLeft, forksLeft>>

\* researchInvestor returned (searchTavily never throws): the research is
\* cached and saveResearchCache writes the cache file (lines 434-440).
MainResearched ==
    /\ pc = "mresearch"
    /\ LET cache == progress.researchCache \cup {investor}
       IN /\ progress' = [progress EXCEPT !.researchCache = cache]
          /\ disk' = [disk EXCEPT !.cache = WriteFile(cache)]
    /\ pc' = "mcached"
    /\ UNCHANGED <<cfg, members, serverVars, called, diskFull, options, gap, pauses, scrapeVars,
                   resume, toProcess, i, consecutiveInBatch, chain, orphans,
                   resolved, call, attempt, savedLen, throwsLeft, runsLeft,
                   forksLeft>>

\* saveResearchCache returned: analyzeWithGPT sends its request
\* (lines 443-444).  outputs lists the investors whose research was saved
\* and who were not enriched since.
MainAnalyze ==
    /\ pc = "mcached"
    /\ pc' = "manalyze"
    /\ chain' = [phase |-> "request", rc |-> 0]
    /\ outputs' = Append(outputs, investor)
    /\ call' = [NewCall EXCEPT !.requests = 1]
    /\ UNCHANGED <<cfg, members, serverVars, called, diskFull, options, gap, pauses, processed, stage,
                   disk, resume, progress, toProcess, i, consecutiveInBatch,
                   orphans, resolved, attempt, savedLen, throwsLeft,
                   runsLeft, forksLeft>>

\* The chat-completions request of analyzeWithGPT gets its outcome
\* (lines 244-266).
MainGptRespond ==
    /\ pc = "manalyze"
    /\ chain.phase = "request"
    /\ \E o \in cfg.outcomes :
         LET a == GptClassify(o, chain.rc)
         IN /\ attempt' = [NoAttempt EXCEPT !.outcome = o, !.rc = chain.rc]
            /\ IF a = "retry"
               THEN /\ chain' = [phase |-> "sleep", rc |-> chain.rc + 1]
                    /\ call' = [call EXCEPT !.retries = @ + 1,
                                            !.prevDelay = call.lastDelay,
                                            !.lastDelay = GptDelay(chain.rc)]
                    /\ UNCHANGED <<pc, resolved>>
               ELSE /\ chain' = NoChain
                    /\ resolved' = a
                    /\ pc' = "mrecord"
                    /\ UNCHANGED call
    /\ UNCHANGED <<cfg, members, serverVars, called, diskFull, options, gap, pauses, scrapeVars,
                   disk, resume, progress, toProcess, i, consecutiveInBatch,
                   orphans, savedLen, throwsLeft, runsLeft,
                   forksLeft>>

\* await sleep(delay) of the 429 backoff returns: analyzeWithGPT calls
\* itself with retryCount + 1 (lines 257-258).
MainGptWake ==
    /\ pc = "manalyze"
    /\ chain.phase = "sleep"
    /\ chain' = [chain EXCEPT !.phase = "request"]
    /\ call' = [call EXCEPT !.requests = @ + 1]
    /\ UNCHANGED <<cfg, members, serverVars, called, diskFull, options, gap, pauses, scrapeVars,
                   disk, pc, resume, progress, toProcess, i,
                   consecutiveInBatch, orphans, resolved, attempt, savedLen,
                   throwsLeft, runsLeft, forksLeft>>

\* Lines 446-463: an analysis is stored in memory and saveProgress writes
\* the progress file; a null analysis counts as a failure and the next
\* investor follows.
MainRecord ==
    /\ pc = "mrecord"
    /\ IF resolved = "analysis"
       THEN LET ids == Append(progress.enriched_ids, investor)
                data == progress.enrichedData \cup {investor}
            IN /\ progress' = [progress EXCEPT !.enriched_ids = ids,
                                               !.enrichedData = data]
               /\ disk' = [disk EXCEPT !.progress = WriteFile(ids)]
               /\ savedLen' = Len(ids)
               /\ outputs' = FilterOut(outputs, {investor})
               /\ pc' = "msaveE"
               /\ UNCHANGED i
       ELSE /\ i' = i + 1
            /\ pc' = "mloop"
            /\ UNCHANGED <<progress, disk, savedLen, outputs>>
    /\ resolved' = "none"
    /\ call' = NewCall
    /\ attempt' = NoAttempt
    /\ UNCHANGED <<cfg, members, serverVars, called, diskFull, options, gap, pauses, processed, stage,
                   resume, toProcess, consecutiveInBatch, chain, orphans,
                   throwsLeft, runsLeft, forksLeft>>

\* saveEnrichedData(enrichedData) (line 464).
MainSaveEnriched ==
    /\ pc = "msaveE"
    /\ disk' = [disk EXCEPT !.enriched = WriteFile(progress.enrichedData)]
    /\ pc' = "msaveC"
    /\ UNCHANGED <<cfg, members, serverVars, called, diskFull, options, gap, pauses, scrapeVars,
                   resume, progress, toProcess, i, consecutiveInBatch, chain,
                   orphans, resolved, call, attempt, savedLen, throwsLeft,
                   runsLeft, forksLeft>>

\* Lines 466-468: the investor leaves the research cache, the cache file is
\* written; then the next investor.
MainSaveCache ==
    /\ pc = "msaveC"
    /\ LET cache == progress.researchCache \ {investor}
       IN /\ progress' = [progress EXCEPT !.researchCache = cache]
          /\ disk' = [disk EXCEPT !.cache = WriteFile(cache)]
    /\ i' = i + 1
    /\ pc' = "mloop"
    /\ UNCHANGED <<cfg, members, serverVars, called, diskFull, options, gap, pauses, scrapeVars,
                   resume, toProcess, consecutiveInBatch, chain, orphans,
                   resolved, call, attempt, savedLen, throwsLeft, runsLeft,
                   forksLeft>>

\* The loop ends: the summary is printed (lines 485-499).
MainFinish ==
    /\ cfg.script = "research"
    /\ pc = "mloop"
    /\ i >= Len(toProcess)
    /\ pc' = "done"
    /\ UNCHANGED <<cfg, members, serverVars, called, diskFull, options, gap, pauses, scrapeVars,
                   disk, resume, progress, toProcess, i, consecutiveInBatch,
                   chain, orphans, resolved, call, attempt, savedLen,
                   throwsLeft, runsLeft, forksLeft>>

(***************************************************************************)
(* Founder enrichment: main() of unnamed/part_001.                         *)
(***************************************************************************)
\* The company of the current iteration (its key name|website).
company == toProcess[i + 1]

\* node enrich_founders.js [--limit n] [--batch n]: load the progress,
\* filter out the processed companies, apply the limit, load founders.json
\* (lines 516-590).
FoundersStart ==
    /\ cfg.script = "founders"
    /\ pc \in {"off", "done"}
    /\ runsLeft > 0
    /\ \E l \in cfg.limits, b \in cfg.batches :
         LET done == LoadFile(disk.progress, <<>>)
             uniqueCompanies ==
                 FoundersLimit(FilterOut(members, Range(done)), l)
         IN /\ options' = [limit |-> l, delay |-> DEFAULT_DELAY,
                           dryRun |-> FALSE, batch |-> b]
            /\ toProcess' = uniqueCompanies
            /\ IF uniqueCompanies = <<>>
               THEN /\ pc' = "done"
                    /\ progress' = [processed |-> done, founders |-> <<>>]
               ELSE /\ pc' = "floop"
                    /\ progress' =
                         [processed |-> done,
                          founders |-> LoadFile(disk.founders, <<>>)]
    /\ resume' = TRUE
    /\ i' = 0
    /\ processed' = 0
    /\ consecutiveInBatch' = 0
    /\ pauses' = 0
    /\ resolved' = "none"
    /\ runsLeft' = runsLeft - 1
    /\ UNCHANGED <<cfg, members, serverVars, called, diskFull, gap, stage, outputs, disk, chain,
                   orphans, call, attempt, savedLen, throwsLeft, forksLeft>>

\* Top of an iteration (line 610): enrichCompany(company) is called and
\* awaited; after the last company the final save starts (line 654).
FoundersIterate ==
    /\ pc = "floop"
    /\ pc' = IF i < Len(toProcess) THEN "flookup" ELSE "fsF_final"
    /\ resolved' = "none"
    /\ UNCHANGED <<cfg, members, serverVars, called, diskFull, options, gap, pauses, scrapeVars,
                   disk, resume, progress, toProcess, i, consecutiveInBatch,
                   chain, orphans, call, attempt, savedLen, throwsLeft,
                   runsLeft, forksLeft>>

\* enrichCompany returned or rejected (lines 612-628, 646-648): the result
\* is pushed to founders and the key to progress.processed, whatever its
\* confidence; a rejection goes to the catch.
FoundersLookedUp ==
    /\ pc = "flookup"
    /\ \E o \in {x \in cfg.outcomes : x = "throw" => throwsLeft > 0} :
         /\ resolved' = o
         /\ IF o = "throw"
            THEN /\ pc' = "fsF_catch"
                 /\ throwsLeft' = throwsLeft - 1
                 /\ UNCHANGED <<progress, processed, consecutiveInBatch>>
            ELSE /\ progress' =
                      [processed |-> Append(progress.processed, company),
                       founders |->
                          Append(progress.founders,
                                 [key |-> company, confidence |-> o])]
                 /\ processed' = processed + 1
                 /\ consecutiveInBatch' = consecutiveInBatch + 1
                 /\ pc' = IF (processed + 1) % FOUNDERS_SAVE_EVERY = 0
                          THEN "fsF_periodic" ELSE "fbatch"
                 /\ UNCHANGED throwsLeft
    /\ UNCHANGED <<cfg, members, serverVars, called, diskFull, options, gap, pauses, stage,
                   outputs, disk, resume, toProcess, i, chain, orphans, call,
                   attempt, savedLen, runsLeft, forksLeft>>

\* saveFounders(founders): founders.json is written (lines 444-446).
FoundersSaveFounders ==
    /\ pc \in {"fsF_periodic", "fsF_catch", "fsF_final"}
    /\ disk' = [disk EXCEPT !.founders = WriteFile(progress.founders)]
    /\ pc' = CASE pc = "fsF_periodic" -> "fsP_periodic"
                [] pc = "fsF_catch" -> "fsP_catch"
                [] OTHER -> "fsP_final"
    /\ UNCHANGED <<cfg, members, serverVars, called, diskFull, options, gap, pauses, scrapeVars,
                   resume, progress, toProcess, i, consecutiveInBatch, chain,
                   orphans, resolved, call, attempt, savedLen, throwsLeft,
                   runsLeft, forksLeft>>

\* saveProgress(progress): the progress file is written (lines 431-433);
\* then the batch test, the next company, or the summary.
FoundersSaveProgress ==
    /\ pc \in {"fsP_periodic", "fsP_catch", "fsP_final"}
    /\ disk' = [disk EXCEPT !.progress = WriteFile(progress.processed)]
    /\ CASE pc = "fsP_periodic" -> pc' = "fbatch" /\ UNCHANGED i
         [] pc = "fsP_catch" -> pc' = "floop" /\ i' = i + 1
         [] OTHER -> pc' = "done" /\ UNCHANGED i
    /\ UNCHANGED <<cfg, members, serverVars, called, diskFull, options, gap, pauses, scrapeVars,
                   resume, progress, toProcess, consecutiveInBatch, chain,
                   orphans, resolved, call, attempt, savedLen, throwsLeft,
                   runsLeft, forksLeft>>

\* Lines 643-648: the batch pause starts when batchCount reached the batch
\* size, else the next company.
FoundersBatch ==
    /\ pc = "fbatch"
    /\ IF consecutiveInBatch >= options.batch
       THEN /\ pc' = "fpause"
            /\ pauses' = pauses + 1
            /\ UNCHANGED i
       ELSE /\ pc' = "floop"
            /\ i' = i + 1
            /\ UNCHANGED pauses
    /\ UNCHANGED <<cfg, members, serverVars, called, diskFull, options, gap, scrapeVars, disk,
                   resume, progress, toProcess, consecutiveInBatch, chain,
                   orphans, resolved, call, attempt, savedLen, throwsLeft,
                   runsLeft, forksLeft>>

\* await sleep(CONFIG.BATCH_PAUSE) returns: batchCount = 0 (lines 646-647).
FoundersAfterPause ==
    /\ pc = "fpause"
    /\ consecutiveInBatch' = 0
    /\ i' = i + 1
    /\ pc' = "floop"
    /\ UNCHANGED <<cfg, members, serverVars, called, diskFull, options, gap, pauses, scrapeVars,
                   disk, resume, progress, toProcess, chain, orphans,
                   resolved, call, attempt, savedLen, throwsLeft, runsLeft,
                   forksLeft>>

(***************************************************************************)
(* Basic scraper: scrapeInvestors().                                       *)
(***************************************************************************)
\* node visible_investor_scraper.js [--limit n] [--resume] [--detailed]:
\* load or initialise the progress and request the first page
\* (lines 434-457).
BasicStart ==
    /\ cfg.script = "basic"
    /\ pc \in {"off", "done", "exited"}
    /\ runsLeft > 0
    /\ \E r \in BOOLEAN, l \in cfg.limits, dt \in cfg.detailed :
         /\ resume' = r
         /\ options' = [limit |-> l, delay |-> DEFAULT_DELAY,
                        dryRun |-> FALSE, detailed |-> dt]
         /\ progress' = IF r THEN BasicLoadProgress(disk) ELSE BasicFresh
    /\ pc' = "bfirst"
    /\ chain' = [phase |-> "request", rc |-> 0]
    /\ call' = [NewCall EXCEPT !.requests = 1]
    /\ attempt' = NoAttempt
    /\ resolved' = "none"
    /\ i' = 0
    /\ runsLeft' = runsLeft - 1
    /\ orphans' = <<>>
    /\ UNCHANGED <<cfg, members, serverVars, called, diskFull, gap, pauses, scrapeVars, disk,
                   toProcess, consecutiveInBatch, savedLen,
                   throwsLeft, forksLeft>>

\* A request of makeRequest gets its outcome (lines 149-190).  On a timeout
\* the callback destroys the request and rejects (lines 186-189); when
\* req.destroy() emits 'error', the error handler (lines 175-184) runs
\* after the rejection and, below MAX_RETRIES, schedules a retry that no
\* promise follows.
BasicRespond ==
    /\ pc \in {"bfirst", "bpage", "bdetail"}
    /\ chain.phase = "request"
    /\ \E o \in cfg.outcomes : \E d \in DestroyChoices(o) :
         LET a == BasicClassify(o, chain.rc)
             n == Handlers(o, d)
         IN /\ attempt' = [outcome |-> o, rc |-> chain.rc, profile |-> 0,
                           null |-> 0,
                           retry |-> IF a = "retry" THEN 1 ELSE 0]
            /\ forksLeft' = IF n = 2 THEN forksLeft - 1 ELSE forksLeft
            /\ orphans' =
                 IF n = 2 /\ chain.rc < BASIC_MAX_RETRIES
                 THEN Append(orphans, [id |-> i, current |-> FALSE,
                                       phase |-> "sleep",
                                       rc |-> chain.rc + 1])
                 ELSE orphans
            /\ IF a = "retry"
               THEN /\ chain' = [phase |-> "sleep", rc |-> chain.rc + 1]
                    /\ call' = [call EXCEPT !.retries = @ + 1,
                                            !.prevDelay = call.lastDelay,
                                            !.lastDelay = BASIC_RETRY_DELAY]
                    /\ UNCHANGED <<pc, resolved>>
               ELSE /\ chain' = NoChain
                    /\ resolved' = a
                    /\ pc' = CASE pc = "bfirst" -> "bfirstdone"
                                [] pc = "bpage" -> "bpagedone"
                                [] OTHER -> "bdetaildone"
                    /\ UNCHANGED call
    /\ UNCHANGED <<cfg, members, serverVars, called, diskFull, options, gap, pauses, scrapeVars,
                   disk, resume, progress, toProcess, i, consecutiveInBatch,
                   savedLen, throwsLeft, runsLeft>>

\* sleep(CONFIG.RETRY_DELAY) ends: makeRequest(endpoint, retryCount + 1).
BasicRetryWake ==
    /\ pc \in {"bfirst", "bpage", "bdetail"}
    /\ chain.phase = "sleep"
    /\ chain' = [chain EXCEPT !.phase = "request"]
    /\ call' = [call EXCEPT !.requests = @ + 1]
    /\ UNCHANGED <<cfg, members, serverVars, called, diskFull, options, gap, pauses, scrapeVars,
                   disk, pc, resume, progress, toProcess, i,
                   consecutiveInBatch, orphans, resolved, attempt, savedLen,
                   throwsLeft, runsLeft, forksLeft>>

\* The catch of scrapeInvestors (lines 565-575): save if any investor was
\* collected, then process.exit(1).
BasicCatch(p) ==
    /\ disk' = IF Len(p.investors) > 0 THEN BasicSaveProgress(p) ELSE disk
    /\ orphans' = <<>>
    /\ pc' = "exited"

\* The first page arrived or its request was rejected (lines 455-474).
BasicFirstPage ==
    /\ pc = "bfirstdone"
    /\ IF resolved = "reject"
       THEN /\ BasicCatch(progress)
            /\ UNCHANGED progress
       ELSE LET page == IF resolved = "data"
                        THEN PageAt(progress.offset, cfg.items, cfg.served) ELSE <<>>
                totalAvailable == IF resolved = "data" THEN cfg.items ELSE 0
            IN /\ progress' =
                    [progress EXCEPT
                       !.total = MinLimit(totalAvailable, options.limit),
                       !.investors =
                          IF progress.offset = 0
                          THEN PushPage(@, page, options.limit) ELSE @]
               /\ pc' = "bloop"
               /\ UNCHANGED <<disk, orphans>>
    /\ resolved' = "none"
    /\ UNCHANGED <<cfg, members, serverVars, called, diskFull, options, gap, pauses, scrapeVars,
                   resume, toProcess, i, consecutiveInBatch, chain,
                   call, attempt, savedLen, throwsLeft, runsLeft, forksLeft>>

\* The test of the page loop (lines 477-486): request the next page, or the
\* list is complete.
BasicLoop ==
    /\ pc = "bloop"
    /\ IF Len(progress.investors) < progress.total
       THEN /\ progress' = [progress EXCEPT !.offset = @ + PAGE_SIZE]
            /\ pc' = "bpage"
            /\ chain' = [phase |-> "request", rc |-> 0]
            /\ call' = [NewCall EXCEPT !.requests = 1]
            /\ attempt' = NoAttempt
       ELSE /\ pc' = "blistdone"
            /\ UNCHANGED <<progress, chain, call, attempt>>
    /\ UNCHANGED <<cfg, members, serverVars, called, diskFull, options, gap, pauses, scrapeVars,
                   disk, resume, toProcess, i, consecutiveInBatch, orphans,
                   resolved, savedLen, throwsLeft, runsLeft, forksLeft>>

\* A further page arrived or its request was rejected (lines 484-502).
BasicPage ==
    /\ pc = "bpagedone"
    /\ CASE resolved = "reject" ->
               /\ BasicCatch(progress)
               /\ UNCHANGED progress
          [] resolved = "data"
               /\ PageAt(progress.offset, cfg.items, cfg.served) # <<>> ->
               LET p == [progress EXCEPT
                           !.investors =
                              PushPage(@, PageAt(progress.offset, cfg.items, cfg.served),
                                       options.limit)]
               IN /\ progress' = p
                  /\ disk' = IF Len(p.investors) % BASIC_SAVE_EVERY = 0
                             THEN BasicSaveProgress(p) ELSE disk
                  /\ pc' = "bloop"
                  /\ UNCHANGED orphans
          [] OTHER ->
               /\ pc' = "blistdone"
               /\ UNCHANGED <<progress, disk, orphans>>
    /\ resolved' = "none"
    /\ UNCHANGED <<cfg, members, serverVars, called, diskFull, options, gap, pauses, scrapeVars,
                   resume, toProcess, i, consecutiveInBatch, chain,
                   call, attempt, savedLen, throwsLeft, runsLeft, forksLeft>>

\* The list is complete (lines 504-512): the detail loop starts at
\* progress.detailsProcessed, or the results are written.
BasicListDone ==
    /\ pc = "blistdone"
    /\ IF options.detailed
       THEN /\ pc' = "bdloop"
            /\ i' = progress.detailsProcessed
       ELSE /\ pc' = "bfinish"
            /\ UNCHANGED i
    /\ UNCHANGED <<cfg, members, serverVars, called, diskFull, options, gap, pauses, scrapeVars,
                   disk, resume, progress, toProcess, consecutiveInBatch,
                   chain, orphans, resolved, call, attempt, savedLen,
                   throwsLeft, runsLeft, forksLeft>>

\* Top of an iteration of the detail loop (lines 512-521).
BasicDetailIterate ==
    /\ pc = "bdloop"
    /\ IF i >= Len(progress.investors)
       THEN /\ pc' = "bfinish"
            /\ UNCHANGED <<i, chain, call, attempt>>
       ELSE IF progress.investors[i + 1].detailed
            THEN /\ i' = i + 1
                 /\ UNCHANGED <<pc, chain, call, attempt>>
            ELSE /\ pc' = "bdetail"
                 /\ chain' = [phase |-> "request", rc |-> 0]
                 /\ call' = [NewCall EXCEPT !.requests = 1]
                 /\ attempt' = NoAttempt
                 /\ UNCHANGED i
    /\ UNCHANGED <<cfg, members, serverVars, called, diskFull, options, gap, pauses, scrapeVars,
                   disk, resume, progress, toProcess, consecutiveInBatch,
                   orphans, resolved, savedLen, throwsLeft, runsLeft,
                   forksLeft>>

\* fetchInvestorDetails returned (lines 265-275, 521-532): a rejected
\* request and an empty answer both give null, and the investor stays as
\* it is.
BasicDetailGot ==
    /\ pc = "bdetaildone"
    /\ LET p == [progress EXCEPT
                   !.investors[i + 1].detailed =
                      IF resolved = "data" THEN TRUE ELSE @,
                   !.detailsProcessed = i + 1]
       IN /\ progress' = p
          /\ disk' = IF (i + 1) % DETAIL_SAVE_EVERY = 0
                     THEN BasicSaveProgress(p) ELSE disk
    /\ i' = i + 1
    /\ pc' = "bdloop"
    /\ resolved' = "none"
    /\ UNCHANGED <<cfg, members, serverVars, called, diskFull, options, gap, pauses, scrapeVars,
                   resume, toProcess, consecutiveInBatch, chain, orphans,
                   call, attempt, savedLen, throwsLeft, runsLeft, forksLeft>>

\* Lines 538-563: the results are written, the progress file is removed.
BasicFinish ==
    /\ pc = "bfinish"
    /\ outputs' = progress.investors
    /\ disk' = BasicNoFile
    /\ pc' = "done"
    /\ UNCHANGED <<cfg, members, serverVars, called, diskFull, options, gap, pauses, processed,
                   stage, resume, progress, toProcess, i, consecutiveInBatch,
                   chain, orphans, resolved, call, attempt, savedLen,
                   throwsLeft, runsLeft, forksLeft>>

(***************************************************************************)
(* investor-finder/server.js: the rate limiter.                            *)
(***************************************************************************)
NewEntry ==
    [requests |-> <<>>, searchRequests |-> <<>>, authRequests |-> <<>>,
     blocked_until |-> NoTime]

\* filter(r => now - r.timestamp < RATE_LIMIT.windowMs)
InWindow(timestamps, t) ==
    LET Recent(r) == t - r < windowMs IN SelectSeq(timestamps, Recent)

\* The three filters of checkRateLimit and of the cleanup timer.
Cleaned(data, t) ==
    [data EXCEPT !.requests = InWindow(@, t),
                 !.searchRequests = InWindow(@, t),
                 !.authRequests = InWindow(@, t)]

maxLimit(type) ==
    CASE type = "search" -> maxSearchRequests
      [] type = "auth" -> maxAuthRequests
      [] OTHER -> maxRequests

requestArray(data, type) ==
    CASE type = "search" -> data.searchRequests
      [] type = "auth" -> data.authRequests
      [] OTHER -> data.requests

\* requestArray.push({ timestamp: now })
PushRequest(data, type, t) ==
    CASE type = "search" -> [data EXCEPT !.searchRequests = Append(@, t)]
      [] type = "auth" -> [data EXCEPT !.authRequests = Append(@, t)]
      [] OTHER -> [data EXCEPT !.requests = Append(@, t)]

\* rateLimitStore with the entry of ip set to data.
StoreWith(store, ip, data) ==
    [k \in DOMAIN store \cup {ip} |-> IF k = ip THEN data ELSE store[k]]

\* checkRateLimit, if turning a blocked IP away started its block anew.
checkRateLimitExtending(store, ip, type, t) ==
    LET data == IF ip \in DOMAIN store THEN store[ip] ELSE NewEntry
        cleaned == Cleaned(data, t)
        currentCount == Len(requestArray(cleaned, type))
        block == [cleaned EXCEPT !.blocked_until = <<t + blockDurationMs>>]
    IN  IF data.blocked_until # NoTime /\ data.blocked_until[1] > t
        THEN [store |-> StoreWith(store, ip, block), allowed |-> FALSE,
              reason |-> "blocked"]
        ELSE IF currentCount >= maxLimit(type)
        THEN [store |-> StoreWith(store, ip, block),
              allowed |-> FALSE, reason |-> "limit"]
        ELSE [store |-> StoreWith(store, ip, PushRequest(cleaned, type, t)),
              allowed |-> TRUE, reason |-> "ok"]

\* checkRateLimit(ip, type) called when Date.now() is t: the store it
\* leaves, and what it returns.
checkRateLimit(store, ip, type, t) ==
    LET data == IF ip \in DOMAIN store THEN store[ip] ELSE NewEntry
        cleaned == Cleaned(data, t)
        currentCount == Len(requestArray(cleaned, type))
        block == [cleaned EXCEPT !.blocked_until = <<t + blockDurationMs>>]
    IN  IF data.blocked_until # NoTime /\ data.blocked_until[1] > t
        THEN [store |-> StoreWith(store, ip, data), allowed |-> FALSE,
              reason |-> "blocked"]
        ELSE IF currentCount >= maxLimit(type)
        THEN [store |-> StoreWith(store, ip, block),
              allowed |-> FALSE, reason |-> "limit"]
        ELSE [store |-> StoreWith(store, ip, PushRequest(cleaned, type, t)),
              allowed |-> TRUE, reason |-> "ok"]

\* What the cleanup timer makes of one entry.
CleanupEntry(data, t) ==
    [Cleaned(data, t) EXCEPT
        !.blocked_until = IF data.blocked_until # NoTime
                             /\ data.blocked_until[1] < t
                          THEN NoTime ELSE @]

\* The callback of the cleanup timer, run when Date.now() is t.
Swept(store, t) ==
    LET Empty(ip) == /\ CleanupEntry(store[ip], t).requests = <<>>
                     /\ CleanupEntry(store[ip], t).blocked_until = NoTime
    IN  [ip \in {k \in DOMAIN store : ~Empty(k)} |->
            CleanupEntry(store[ip], t)]

\* The record of allowed requests, with one of type at t added.  Entries a
\* window or more before t share no window with this or any later request.
Logged(log, ip, type, t) ==
    [log EXCEPT ![ip][type] = Append(InWindow(@, t), t)]

\* handleRequest for a request of client ip: a static file, or an /api/
\* path that is checked against the general limit and, for /api/search and
\* the login and registration paths, against a second limit.  The two calls
\* of checkRateLimit read the clock one after the other: the second reads
\* it skew milliseconds later.
HandleRequest(ip, kind, skew) ==
    /\ cfg.script = "server"
    /\ sent < cfg.items
    /\ LET general == checkRateLimit(rateLimitStore, ip, "general", now)
           second == kind \in {"search", "auth"} /\ general.allowed
           typed == checkRateLimit(general.store, ip, kind, now + skew)
           last == IF second THEN typed ELSE general
           lastAt == IF second THEN now + skew ELSE now
           was == blockedAt[ip]
           expired == was # NoBlock /\ now >= was.at + blockDurationMs
           log1 == IF general.allowed
                   THEN Logged(admitted, ip, "general", now) ELSE admitted
       IN  /\ skew > 0 => (second /\ ticksLeft > 0)
           /\ IF kind = "static"
              THEN /\ verdict' = [ip |-> ip, kind |-> kind, at |-> now,
                                  allowed |-> TRUE, reason |-> "static",
                                  after |-> FALSE, rejected |-> 0]
                   /\ UNCHANGED <<now, rateLimitStore, admitted, blockedAt,
                                  ticksLeft>>
              ELSE /\ rateLimitStore' = last.store
                   /\ now' = lastAt
                   /\ ticksLeft' = IF skew > 0 THEN ticksLeft - 1
                                   ELSE ticksLeft
                   /\ admitted' = IF second /\ typed.allowed
                                  THEN Logged(log1, ip, kind, lastAt)
                                  ELSE log1
                   /\ blockedAt' =
                        [blockedAt EXCEPT ![ip] =
                            CASE last.reason = "limit" ->
                                   [at |-> lastAt, rejected |-> 0]
                              [] last.reason = "blocked" /\ was # NoBlock ->
                                   [was EXCEPT !.rejected = @ + 1]
                              [] last.reason = "ok" /\ expired -> NoBlock
                              [] OTHER -> was]
                   /\ verdict' = [ip |-> ip, kind |-> kind, at |-> now,
                                  allowed |-> last.allowed,
                                  reason |-> last.reason, after |-> expired,
                                  rejected |-> IF was = NoBlock THEN 0
                                               ELSE was.rejected]
    /\ sent' = sent + 1
    /\ UNCHANGED <<cfg, members, scriptVars, cleanupDue>>

\* A request of some client arrives.
Request ==
    \E ip \in ClientIPs :
        \E kind \in cfg.kinds, skew \in cfg.skews :
            HandleRequest(ip, kind, skew)

\* Time passes between two callbacks of the event loop.
Tick ==
    /\ cfg.script = "server"
    /\ ticksLeft > 0
    /\ sent % cfg.batch = 0
    /\ \E d \in cfg.steps : now' = now + d
    /\ ticksLeft' = ticksLeft - 1
    /\ UNCHANGED <<cfg, members, scriptVars, rateLimitStore, cleanupDue,
                   admitted, blockedAt, verdict, sent>>

\* The setInterval callback.  The server may have started at any moment, so
\* the first run can come at any time; the next is due an interval later.
Cleanup ==
    /\ cfg.script = "server"
    /\ now >= cleanupDue
    /\ rateLimitStore' = Swept(rateLimitStore, now)
    /\ cleanupDue' = now + CLEANUP_INTERVAL
    /\ UNCHANGED <<cfg, members, scriptVars, now, admitted, blockedAt,
                   verdict, sent, ticksLeft>>


Next ==
    \/ Start \/ Iterate \/ AfterPause \/ CallApi \/ Respond \/ RetryWake
    \/ OrphanWake \/ OrphanRespond \/ RecordResult \/ PeriodicSave
    \/ CatchResume \/ Finish \/ Kill \/ DiskFills
    \/ ScraperStart \/ ScraperRetry \/ ScraperRespond \/ ScraperRetryWake
    \/ ScraperListDone \/ ScraperListCall \/ ScraperIterate \/ ScraperAfterPause
    \/ ScraperCall \/ ScraperGot \/ ScraperPeriodicSave \/ ScraperFinish
    \/ MainStart \/ MainIterate \/ MainResearched \/ MainAnalyze \/ MainGptRespond
    \/ MainGptWake \/ MainRecord \/ MainSaveEnriched \/ MainSaveCache
    \/ MainFinish
    \/ BasicStart \/ BasicRespond \/ BasicRetryWake \/ BasicFirstPage
    \/ BasicLoop \/ BasicPage \/ BasicListDone \/ BasicDetailIterate
    \/ BasicDetailGot \/ BasicFinish
    \/ FoundersStart \/ FoundersIterate \/ FoundersLookedUp
    \/ FoundersSaveFounders \/ FoundersSaveProgress \/ FoundersBatch
    \/ FoundersAfterPause
    \/ Request \/ Tick \/ Cleanup

Spec == Init /\ [][Next]_vars

(***************************************************************************)
(* One process of enrich_investors.js that is never killed.  The event     *)
(* loop runs every continuation, timer and response callback that is       *)
(* pending, and every request gets its response, error or timeout: weak    *)
(* fairness of every step but the start of a run.                          *)
(***************************************************************************)
NextLive ==
    \/ Start \/ Iterate \/ AfterPause \/ CallApi \/ Respond \/ RetryWake
    \/ OrphanWake \/ OrphanRespond \/ RecordResult \/ PeriodicSave
    \/ CatchResume \/ Finish

Fairness ==
    /\ WF_vars(Iterate) /\ WF_vars(AfterPause) /\ WF_vars(CallApi)
    /\ WF_vars(Respond) /\ WF_vars(RetryWake) /\ WF_vars(OrphanWake)
    /\ WF_vars(OrphanRespond) /\ WF_vars(RecordResult)
    /\ WF_vars(PeriodicSave) /\ WF_vars(CatchResume) /\ WF_vars(Finish)

SpecLive == InitLive /\ [][NextLive]_vars /\ Fairness

(***************************************************************************)
(* One process of investor-enrichment.js that is never killed.  The event  *)
(* loop runs every continuation and timer that is pending: weak fairness   *)
(* of every step of the script itself.  makeRequest (lines 52-80) listens  *)
(* for the response and for 'error' and sets no timeout, so nothing in the *)
(* script makes a request end: the response steps carry no fairness.       *)
(***************************************************************************)
InitGpt == cfg = ResearchRun /\ InitRun

NextGpt ==
    \/ MainStart \/ MainIterate \/ MainResearched \/ MainAnalyze
    \/ MainGptRespond \/ MainGptWake \/ MainRecord \/ MainSaveEnriched
    \/ MainSaveCache \/ MainFinish

FairnessGpt ==
    /\ WF_vars(MainIterate) /\ WF_vars(MainAnalyze) /\ WF_vars(MainGptWake)
    /\ WF_vars(MainRecord) /\ WF_vars(MainSaveEnriched)
    /\ WF_vars(MainSaveCache) /\ WF_vars(MainFinish)

SpecGptLive == InitGpt /\ [][NextGpt]_vars /\ FairnessGpt

(***************************************************************************)
(* Properties.                                                             *)
(***************************************************************************)
IsEnrich == cfg.script = "enrich"

\* The list of processed items of the running script.
ProcessedList ==
    CASE cfg.script = "scrape" -> progress.processedSlugs
      [] cfg.script = "research" -> progress.enriched_ids
      [] cfg.script = "basic" -> <<>>
      [] cfg.script = "founders" -> <<>>
      [] OTHER -> progress.processedIds

\* Items recorded as processed in memory that are not on durable storage.
Unsaved == Len(ProcessedList) - savedLen

NoDuplicates(s) == \A k, l \in 1..Len(s) : s[k] = s[l] => k = l

\* C1: enrichLinkedInProfile is never called or pending for a member whose
\* id is already in progress.processedIds.
C1_NoDoubleProcessing ==
    (IsEnrich /\ pc = "fetch") => member \notin Range(progress.processedIds)

\* C2: every checkpoint written by saveProgress has as many processedIds as
\* enrichedMembers and holds no id twice.
C2_CheckpointConsistency ==
    (IsEnrich /\ disk.exists) =>
        /\ Len(disk.data.processedIds) = Len(disk.data.enrichedMembers)
        /\ NoDuplicates(disk.data.processedIds)

C5_BackoffMonotone ==
    IsEnrich => /\ call.prevDelay <= call.lastDelay
                /\ call.lastDelay <= MAX_RETRY_DELAY

\* C6: every outcome of one attempt of enrichLinkedInProfile triggers exactly
\* one action, the one of its class: resolve with the profile, resolve with
\* null, or schedule one retry with retryCount + 1.
C6_ExactlyOneAction ==
    (IsEnrich /\ attempt.outcome # "none") =>
        /\ attempt.profile + attempt.null + attempt.retry = 1
        /\ attempt.outcome = "200profile" => attempt.profile = 1
        /\ attempt.outcome \in {"200nodata", "404", "400"} => attempt.null = 1
        /\ attempt.outcome \in {"429", "403", "5xx", "other", "200malformed",
                                "neterr", "timeout"} => attempt.retry = 1

\* C7: a 404 or 400 is not retried: the call resolves with null (after a
\* single request when it answers the first one), and processing the result
\* appends the member with enriched = false, counts it in stats.notFound,
\* adds its id to processedIds and moves on to the next item.
C7_Resolved ==
    (IsEnrich /\ attempt.outcome \in {"404", "400"}) =>
        /\ pc = "result"
        /\ resolved = "null"
        /\ chain = NoChain
        /\ attempt.retry = 0
        /\ attempt.rc = 0 => (call.requests = 1 /\ call.retries = 0)

C7_Recorded ==
    (IsEnrich /\ attempt.outcome \in {"404", "400"} /\ pc' = "save") =>
        /\ progress'.enrichedMembers =
             Append(progress.enrichedMembers,
                    [id |-> member, enriched |-> FALSE])
        /\ progress'.processedIds = Append(progress.processedIds, member)
        /\ progress'.stats.notFound = progress.stats.notFound + 1
        /\ progress'.stats.enriched = progress.stats.enriched

C7_Proceeds == (IsEnrich /\ pc = "save" /\ pc' = "loop") => i' = i + 1

\* C7 as one formula: no retry and a null result in every state, the
\* not-found entry and the advance to the next item in every step.
C7_NotFoundNeverRetried ==
    []C7_Resolved /\ [][C7_Recorded /\ C7_Proceeds]_vars

C7_Witness ==
    /\ IsEnrich
    /\ pc = "result"
    /\ attempt.outcome = "404"
    /\ call.requests = 1

\* C8: a 429 always schedules a retry after a sleep, in enrichLinkedInProfile
\* and in the full scraper's makeRequest: after the n-th consecutive 429 the
\* (n+1)-th request is pending or sent, and the item is neither resolved nor
\* marked processed.
C8_Retried ==
    (cfg.script \in {"enrich", "scrape"} /\ attempt.outcome = "429") =>
        /\ pc \in {"fetch", "sfetch", "slist"}
        /\ resolved = "none"
        /\ attempt.retry = 1
        /\ chain.rc = attempt.rc + 1
        /\ chain.phase \in {"sleep", "request"}
        /\ call.lastDelay > 0
        /\ chain.phase = "request" => call.requests >= attempt.rc + 2

C8_NotProcessedMeanwhile ==
    (cfg.script \in {"enrich", "scrape"}
       /\ attempt.outcome = "429" /\ attempt'.outcome = "429") =>
        (ProcessedList' = ProcessedList /\ i' = i)

\* C8 as one formula: the retry is scheduled in every state after a 429, and
\* no step between two 429s marks the item processed or advances the loop.
C8_RateLimitAlwaysRetried ==
    []C8_Retried /\ [][C8_NotProcessedMeanwhile]_vars

C8_Witness ==
    /\ attempt.outcome = "429"
    /\ attempt.rc = DeepRetry - 1
    /\ chain.phase = "request"

\* C9: in enrichLinkedInProfile a 403 schedules a retry, and the wait before
\* it is at least 60000 ms at every retry count.
C9_CreditsFloor ==
    (IsEnrich /\ attempt.outcome = "403") =>
        /\ call.lastDelay >= 60000
        /\ call.lastDelay = Max(getRetryDelay(attempt.rc), 60000)
        /\ pc = "fetch"
        /\ resolved = "none"
        /\ attempt.retry = 1
        /\ chain.rc = attempt.rc + 1
        /\ chain.phase \in {"sleep", "request"}

C9_Witness ==
    /\ IsEnrich
    /\ attempt.outcome = "403"
    /\ attempt.rc = 0
    /\ call.lastDelay = 60000

\* C10: an item that got k retryable failures and then a success was
\* requested exactly k + 1 times, with exactly k retries, and yields exactly
\* one result entry, counted as enriched.
C10_RetriesThenSuccess ==
    /\ (IsEnrich /\ pc = "result" /\ attempt.outcome = "200profile") =>
           /\ call.requests = attempt.rc + 1
           /\ call.retries = attempt.rc
    /\ (IsEnrich /\ pc = "done") =>
           \A m \in Range(members) :
             Cardinality({k \in 1..Len(progress.enrichedMembers) :
                            progress.enrichedMembers[k].id = m}) <= 1

\* C11: in a run of enrich() with PAUSE_EVERY = N, the pauses taken so far
\* are exactly one for each N-th completed item that is followed by another
\* item (never more than i \div N, and i \div N once the pause check of
\* iteration i is passed), and a pause starts right after a saveProgress of
\* the in-memory record.
C11_PauseCadence ==
    (IsEnrich /\ pc \notin {"off", "done"}) =>
        /\ pauses <= i \div cfg.pauseEvery
        /\ pc \in {"pause", "delay", "fetch", "result", "save"} =>
              pauses = i \div cfg.pauseEvery
        /\ pc = "pause" => disk = saveProgress(progress)

\* C12: a --resume start of enrich() or of the basic scraper (and the
\* internal resume of scrape()) that finds the checkpoint file missing or
\* unparsable gets the empty record from loadProgress and proceeds as a
\* fresh run: the work set is that of a run without --resume and the run
\* enters its first step.
BadFile == ~disk.exists \/ ~disk.ok

C12_EnrichFresh ==
    (IsEnrich /\ pc \in {"off", "done"} /\ runsLeft' < runsLeft
       /\ resume' /\ BadFile) =>
        /\ progress' = EmptyProgress
        /\ toProcess' = SliceLimit(members, options'.limit)
        /\ i' = 0
        /\ pc' = IF ReturnsEarly(options', toProcess') THEN "done" ELSE "loop"

C12_ScraperFresh ==
    (cfg.script = "scrape" /\ pc \in {"off", "done", "sretry"}
       /\ pc' # pc /\ resume' /\ BadFile) =>
        /\ progress' = ScraperFresh
        /\ processed' = 0
        /\ pc' = "slist"
        /\ chain' = [phase |-> "request", rc |-> 0]

C12_BasicFresh ==
    (cfg.script = "basic" /\ pc \in {"off", "done", "exited"}
       /\ runsLeft' < runsLeft /\ resume' /\ BadFile) =>
        /\ progress' = BasicFresh
        /\ pc' = "bfirst"
        /\ chain' = [phase |-> "request", rc |-> 0]

InLoopBody == IsEnrich /\ pc \in {"loop", "result", "save"} /\ i < Len(toProcess)

C13_Caught ==
    (InLoopBody /\ pc' \in {"catchSleep", "failed"}) =>
        /\ pc' = "catchSleep"
        /\ disk' = saveProgress(progress')
        /\ i' = i
        /\ toProcess' = toProcess

C13_SameMember ==
    (IsEnrich /\ pc = "catchSleep" /\ pc' \notin {"catchSleep", "off"}) =>
        (pc' = "loop" /\ i' = i /\ toProcess' = toProcess)

C13_Advance ==
    (IsEnrich /\ pc \notin {"off", "done", "failed"} /\ pc' # "off"
       /\ i' # i) =>
        (pc = "save" /\ pc' = "loop" /\ i' = i + 1)

C13_CatchAllRetriesSameItem ==
    [][C13_Caught /\ C13_SameMember /\ C13_Advance]_vars

\* C14: when enrich() rejects and the error reaches the entry point, the
\* checkpoint on disk holds every item completed before the error.
C14_SavedOnTopLevelError ==
    (IsEnrich /\ pc = "failed") =>
        \A m \in Range(progress.processedIds) :
            disk.exists /\ m \in Range(disk.data.processedIds)

\* C15: in enrich() at most one HTTP request or pending retry exists at any
\* time, one failed attempt schedules exactly one retry, and no request or
\* pending retry is left for a member after its promise resolved.
InFlight == (IF chain.phase = "none" THEN 0 ELSE 1) + Len(orphans)

C15_SingleInFlight ==
    IsEnrich =>
        /\ InFlight <= 1
        /\ attempt.retry <= 1
        /\ pc \notin {"fetch"} => InFlight = 0

\* C16: in enrich() the time between the starts of two consecutive upstream
\* calls, first attempts and retries alike, is at least options.delay, for
\* every value of --delay.
C16_InterRequestDelay ==
    (IsEnrich /\ gap # <<>>) => gap[1] >= options.delay

\* C17: a --dry-run run of enrich() and of main() (investor-enrichment.js)
\* returns after printing the work set: the start step sends no request and
\* writes no checkpoint, progress, cache or result file, and the run is over.
C17_DryStart ==
    (runsLeft' < runsLeft /\ options'.dryRun) =>
        /\ pc' = "done"
        /\ disk' = disk
        /\ chain' = NoChain /\ orphans' = <<>>
        /\ call'.requests = 0

C17_DryOver == options.dryRun => pc = "done"

FirstN(s, n) == [k \in 1..Min(Max(n, 0), Len(s)) |-> s[k]]

C18_WorkSet ==
    (IsEnrich /\ runsLeft' < runsLeft) =>
        LET eligible == FilterOut(members, Range(progress'.processedIds))
        IN toProcess' = IF options'.limit = NoLimit THEN eligible
                        ELSE FirstN(eligible, options'.limit[1])

C18_AtMostLimit ==
    (IsEnrich /\ pc = "fetch") =>
        /\ options.limit # NoLimit => i + 1 <= options.limit[1]
        /\ resume => member \notin Range(loadProgress(disk).processedIds)
                      \/ member \in Range(progress.processedIds)

C18_FirstLimitEligible == []C18_AtMostLimit /\ [][C18_WorkSet]_vars

\* C20: in the basic scraper, a request that ends in HTTP 5xx, in a timeout
\* or in a 200 with a malformed JSON body is retried after a backoff (the
\* chain sleeps, then requests again with the next retryCount), and the run
\* is not ended by it.
TransientOutcomes == {"5xx", "timeout", "200malformed"}

C20_TransientRetried ==
    (cfg.script = "basic" /\ attempt.outcome \in TransientOutcomes) =>
        /\ pc \in {"bfirst", "bpage", "bdetail"}
        /\ chain.phase \in {"sleep", "request"}
        /\ chain.rc = attempt.rc + 1
        /\ pc # "exited"

\* C19: a run of enrich() that entered its loop eventually ends with every
\* item of toProcess processed and the final saveProgress done, given that
\* every request is answered and every item gets a terminal response after
\* finitely many retries.
C19_Finished ==
    /\ pc = "done"
    /\ \A k \in 1..Len(toProcess) :
          toProcess[k] \in Range(progress.processedIds)
    /\ disk = saveProgress(progress)

C19_EnrichTerminates == (IsEnrich /\ pc = "loop") ~> C19_Finished

\* C21: in the per-investor loop of scrape(), a step that adds the slug to
\* processedSlugs is the step that ends its last fetch in a terminal outcome
\* (the investments fetch resolved, or the investor fetch resolved without
\* an investor), and the records of the fetch that resolved with data are
\* taken over in that step: an exception while a fetch is processed does
\* not mark the slug processed.
IsScrape == cfg.script = "scrape"

InInvestorLoop == {"sloop", "spause", "sdelay", "sfetch", "sgot", "ssave"}

C21_Marks ==
    /\ IsScrape
    /\ pc \in InInvestorLoop /\ pc' \in InInvestorLoop
    /\ Len(progress'.processedSlugs) > Len(progress.processedSlugs)

C21_Terminal ==
    C21_Marks =>
        /\ pc = "sgot"
        /\ progress'.processedSlugs = Append(progress.processedSlugs, slug)
        /\ \/ stage = "investor" /\ resolved # "data"
           \/ /\ stage = "rounds"
              /\ resolved = "data" =>
                    progress'.investments = Append(progress.investments, slug)

C21_ProcessedOnlyWhenTerminal == [][C21_Terminal]_vars

\* C22: the checkpoint file of the full scraper, whenever it holds a saved
\* record, lists an investor entry for every processed slug, as many
\* investors as processed slugs, and no slug twice.
C22_SlugsHaveInvestors ==
    (IsScrape /\ disk.exists /\ disk.ok) =>
        /\ \A sl \in Range(disk.data.processedSlugs) :
              sl \in Range(disk.data.investors)
        /\ Len(disk.data.investors) = Len(disk.data.processedSlugs)
        /\ NoDuplicates(disk.data.processedSlugs)

\* C23: in makeRequest of the full scraper, a response with a non-2xx status
\* other than 404 and 400 (403, 401, 408) is answered by a scheduled retry:
\* the chain sleeps and then requests again with the next retryCount, and
\* nothing is resolved as a skipped item.
C23_Retryable == {"401", "403", "408"}

C23_ClientErrorsRetried ==
    (IsScrape /\ attempt.outcome \in C23_Retryable) =>
        /\ attempt.retry >= 1
        /\ attempt.null = 0
        /\ chain.phase \in {"sleep", "request"}
        /\ chain.rc = attempt.rc + 1

\* C24: scrape() restarted with resume = true continues from the progress
\* of the interrupted attempt.  For the in-process retry after the outer
\* catch: the progress it loads is the progress the failed attempt held in
\* memory.  For --resume after a kill: at every point of the per-investor
\* loop where the process can be killed, what loadProgress would return
\* lists every slug the attempt has completed, so none is fetched again.
C24_RetrySame ==
    (IsScrape /\ pc = "sretry" /\ pc' \in {"slist", "sloop"}) =>
        progress' = progress

C24_KillSafe ==
    (IsScrape /\ pc \in InInvestorLoop) =>
        \A sl \in Range(progress.processedSlugs) :
            sl \in Range(ScraperLoadProgress(disk).processedSlugs)

C24_ResumesWhereLeftOff == []C24_KillSafe /\ [][C24_RetrySame]_vars

\* C25: in the founder enrichment run with --batch N, a batch pause is taken
\* after every N-th processed company (the pauses taken so far are one per N
\* processed companies), and when a pause starts founders.json and the
\* progress file hold the in-memory founders and progress.
IsFounders == cfg.script = "founders"

C25_BatchPauseAfterSave ==
    IsFounders =>
        /\ pc = "fpause" =>
              /\ processed % options.batch = 0
              /\ disk.founders = WriteFile(progress.founders)
              /\ disk.progress = WriteFile(progress.processed)
        /\ pc \in {"floop", "flookup"} =>
              pauses = processed \div options.batch

\* C26: a company whose lookup ended with confidence 'failed' is not added
\* to progress.processed by the step that handles the result.
C26_FailedStep ==
    (IsFounders /\ pc = "flookup" /\ resolved' = "failed") =>
        company \notin Range(progress'.processed)

C26_FailedNotProcessed == [][C26_FailedStep]_vars

\* C27: founders.json never holds two records of one company key, and no
\* company that has a record in founders.json is looked up.
C27_OneRecordPerCompany ==
    IsFounders =>
        /\ NoDuplicates(KeysOf(LoadFile(disk.founders, <<>>)))
        /\ pc = "flookup" =>
              company \notin Range(KeysOf(LoadFile(disk.founders, <<>>)))

\* C28: in investor-enrichment.js, in every state (the process can be killed
\* in any of them), every id in the enriched_ids of the progress file has
\* an entry in the enriched_investors.json on disk.
IsResearch == cfg.script = "research"

C28_ProgressImpliesPersisted ==
    IsResearch =>
        \A id \in Range(LoadFile(disk.progress, <<>>)) :
            id \in LoadFile(disk.enriched, {})

\* C29: the list the basic scraper writes at the end of a run, resumed or
\* not, holds the records of the upstream list in order without a gap and
\* without a repetition: its k-th record is the k-th investor upstream.
IsBasic == cfg.script = "basic"

C29_NoPageSkipped ==
    (IsBasic /\ pc = "done") =>
        \A k \in 1..Len(outputs) : outputs[k].id = k

\* C30: every delay makeRequest of the full scraper sleeps before a retry
\* is at most MAX_RETRY_DELAY, whatever the retry count, the failure kind
\* and the jitter.
C30_RetryDelayCapped ==
    (IsScrape /\ chain.phase = "sleep") =>
        call.lastDelay <= SCRAPER_MAX_RETRY_DELAY

\* C31: in the full scraper the time between the starts of any two
\* consecutive API requests of a process is at least
\* MIN_DELAY_BETWEEN_CALLS, whatever --delay is.
C31_MinDelayBetweenCalls ==
    (IsScrape /\ gap # <<>>) => gap[1] >= MIN_DELAY_BETWEEN_CALLS

\* C32: while an item of enrich() is being fetched or retried (its request
\* has no terminal outcome yet), processedIds, enrichedMembers and stats of
\* the in-memory progress do not change; a running process changes them
\* only in the step that handles a request resolved with a terminal
\* outcome (a profile or null).
C32_Frozen ==
    /\ progress'.processedIds = progress.processedIds
    /\ progress'.enrichedMembers = progress.enrichedMembers
    /\ progress'.stats = progress.stats

C32_Step ==
    (IsEnrich /\ pc \notin {"off", "done", "failed"} /\ pc' # "off") =>
        /\ pc = "fetch" => C32_Frozen
        /\ ~C32_Frozen =>
              /\ pc = "result"
              /\ resolved \in {"profile", "null"}
              /\ chain = NoChain

C32_UnchangedWhileRetried == [][C32_Step]_vars

\* C32, witness: an item waits for its retry after a retryable failure
\* while the progress already holds an earlier item.
C32_Witness ==
    /\ IsEnrich /\ pc = "fetch" /\ chain.phase = "sleep"
    /\ call.retries > 0
    /\ Len(progress.processedIds) > 0

\* C33: at every point where enrich() can be observed (no statement of
\* lines 613-626 is half done), the in-memory progress and the progress
\* file the script wrote satisfy stats.total = stats.enriched +
\* stats.notFound = number of processedIds = number of enrichedMembers.
C33_Consistent(p) ==
    /\ p.stats.total = p.stats.enriched + p.stats.notFound
    /\ p.stats.total = Len(p.processedIds)
    /\ Len(p.processedIds) = Len(p.enrichedMembers)

C33_StatsConsistent ==
    IsEnrich =>
        /\ C33_Consistent(progress)
        /\ (disk.exists /\ disk.ok) => C33_Consistent(disk.data)

\* C33, witness: between two items, after members with and without a
\* profile were recorded.
C33_Witness ==
    /\ IsEnrich /\ pc = "loop"
    /\ progress.stats.enriched > 0
    /\ progress.stats.notFound > 0
    /\ disk.exists /\ disk.ok /\ disk.data.stats.total > 0

\* C34: in investor-enrichment.js the research of an investor is in the
\* cache file when its analysis starts, stays there (kills included) until
\* the investor is added to enriched_ids, is not repeated before that, and
\* a running process takes it out of the cache file only in a step after
\* which the progress file lists the investor.
C34_State ==
    IsResearch =>
        /\ pc = "manalyze" => investor \in LoadFile(disk.cache, {})
        /\ \A x \in Range(outputs) : x \in LoadFile(disk.cache, {})
        /\ NoDuplicates(outputs)

C34_Removal ==
    (IsResearch /\ pc' # "off") =>
        \A x \in Range(members) :
            (x \in LoadFile(disk.cache, {}) /\ x \notin LoadFile(disk'.cache, {}))
                => x \in Range(LoadFile(disk'.progress, <<>>))

C34_ResearchOnceUntilEnriched == []C34_State /\ [][C34_Removal]_vars

\* C35: one call of analyzeWithGPT sends at most GPT_MAX_RETRIES + 1
\* requests, sleeps only after a 429 and then 2, 4, 8, 16, 32 seconds
\* before retries 1 to 5, returns null after the sixth 429 in a row and
\* after every other outcome that is not a parsed analysis, and always
\* returns.
C35_Bounded ==
    (IsResearch /\ pc \in {"manalyze", "mrecord"}) =>
        /\ call.requests <= GPT_MAX_RETRIES + 1
        /\ chain.phase = "sleep" =>
              /\ attempt.outcome = "429"
              /\ chain.rc \in 1..GPT_MAX_RETRIES
              /\ call.lastDelay = 1000 * Pow2(chain.rc)
              /\ call.requests = chain.rc
        /\ pc = "mrecord" =>
              /\ resolved = "null" <=> attempt.outcome # "200json"
              /\ attempt.outcome = "429" =>
                    call.requests = GPT_MAX_RETRIES + 1

C35_Returns == (IsResearch /\ pc = "manalyze") ~> (pc = "mrecord")

C35_GptBoundedAndTerminates == []C35_Bounded /\ C35_Returns

\* C36: a call of the basic scraper's makeRequest retries only a 429 and a
\* network error, each time after RETRY_DELAY, sends at most
\* BASIC_MAX_RETRIES + 1 requests, rejects a persistent 429 or network
\* error after exactly BASIC_MAX_RETRIES retries, and sends no request for
\* an endpoint whose promise is already settled.
C36_Settles ==
    IsBasic =>
        /\ pc \in {"bfirst", "bpage", "bdetail"} =>
              /\ chain.rc <= BASIC_MAX_RETRIES
              /\ call.requests
                   = chain.rc + (IF chain.phase = "request" THEN 1 ELSE 0)
              /\ chain.phase = "sleep" =>
                    /\ attempt.outcome \in {"429", "neterr"}
                    /\ call.lastDelay = BASIC_RETRY_DELAY
        /\ (pc \in {"bfirstdone", "bpagedone", "bdetaildone"}
              /\ attempt.outcome \in {"429", "neterr"}) =>
              /\ resolved = "reject"
              /\ call.retries = BASIC_MAX_RETRIES
              /\ call.requests = BASIC_MAX_RETRIES + 1
        /\ \A k \in 1..Len(orphans) : orphans[k].phase # "request"

\* C37: in the list phase of the basic scraper the investors collected
\* since the last saveProgress (since the start of the run when nothing was
\* saved yet) are never more than BASIC_SAVE_EVERY.
C37_SavedCount ==
    IF disk.exists /\ disk.ok THEN Len(disk.data.investors) ELSE 0

C37_SavedEvery500 ==
    (IsBasic /\ pc \in {"bfirst", "bfirstdone", "bloop", "bpage", "bpagedone"})
        => Len(progress.investors) - C37_SavedCount <= BASIC_SAVE_EVERY


(***************************************************************************)
(* investor-finder/server.js: the rate limiter.                            *)
(***************************************************************************)
IsServer == cfg.script = "server"

\* The allowed requests that fall in the window of windowMs milliseconds
\* that starts with the k-th.
C38_InWindowFrom(log, k) ==
    {j \in 1..Len(log) : log[k] <= log[j] /\ log[j] < log[k] + windowMs}

\* C38: for every client IP and each limit type, no more of the requests
\* that checkRateLimit allowed than the maximum of the type fall within any
\* window of 60 seconds, whatever the interleaving of requests and runs of
\* the cleanup timer.
C38_AtMostMaxPerWindow ==
    IsServer =>
        \A ip \in ClientIPs, type \in LimitTypes :
            \A k \in 1..Len(admitted[ip][type]) :
                Cardinality(C38_InWindowFrom(admitted[ip][type], k))
                    <= maxLimit(type)

\* While the block of an IP lasts, the store holds it as it was set.
C39_State ==
    IsServer =>
        \A ip \in ClientIPs :
            (blockedAt[ip] # NoBlock
                /\ now < blockedAt[ip].at + blockDurationMs) =>
                /\ ip \in DOMAIN rateLimitStore
                /\ rateLimitStore[ip].blocked_until
                       = <<blockedAt[ip].at + blockDurationMs>>

\* A request to an /api/ path of an IP that a limit has blocked: before the
\* block has lasted blockDurationMs it is rejected and leaves the entry of
\* the IP, block and counted requests, as it was; the first one after that
\* is allowed.
C39_Step ==
    (IsServer /\ sent' = sent + 1 /\ verdict'.kind # "static"
        /\ blockedAt[verdict'.ip] # NoBlock) =>
        IF verdict'.at < blockedAt[verdict'.ip].at + blockDurationMs
        THEN /\ ~verdict'.allowed
             /\ rateLimitStore'[verdict'.ip] = rateLimitStore[verdict'.ip]
             /\ blockedAt'[verdict'.ip] # NoBlock
             /\ blockedAt'[verdict'.ip].at = blockedAt[verdict'.ip].at
        ELSE verdict'.allowed

\* C39: once checkRateLimit has rejected a request because a limit was
\* reached, every request of that IP, of any limit type, is rejected until
\* blockDurationMs after that moment; the requests rejected meanwhile
\* neither extend the block nor count toward a limit, and the first request
\* after the block has expired is allowed.
C39_BlockedForBlockDuration == []C39_State /\ [][C39_Step]_vars

\* A request was allowed exactly blockDurationMs after a limit blocked its
\* IP, and requests of the IP had been rejected during the block.
C39_Witness ==
    /\ IsServer
    /\ verdict.kind \notin {"none", "static"}
    /\ verdict.after /\ verdict.allowed /\ verdict.rejected > 0

====
